---- MODULE Spec2Model ----
(***************************************************************************)
(* Client-side form scripts of the ERP portal: the Asset form with its     *)
(* finance books and depreciation schedule (asset.js, lines 1-699), the    *)
(* Sales Order form (asset.js, lines 701-1523) and TaxJar Settings.        *)
(*                                                                         *)
(* The scripts run on the browser's single UI thread.  A user action or   *)
(* the completion of a remote call is one task; the field-change handlers *)
(* it sets off run after it, before the next task.  The form framework's   *)
(* contract the scripts rely on is modelled as follows.                    *)
(*   - set_value assigns the field at once and, when the value differs    *)
(*     from the stored one, schedules the field's handlers; the handlers  *)
(*     run from the framework's promise chain, that is after the calling  *)
(*     handler has returned.  Writing the value a field already holds     *)
(*     schedules nothing.                                                 *)
(*   - frm.trigger schedules the named handler in the same way.            *)
(*   - frm.events.x(...) and erpnext.asset.x(...) are plain calls.        *)
(*   - frappe.call sends a request; its callback is a later task.          *)
(* Scheduled handlers are kept in queue; any of them may run next.  Tasks *)
(* (user edits, callbacks) start only when queue is empty.                 *)
(***************************************************************************)
EXTENDS Integers, Sequences, FiniteSets, TLC

VARIABLES
    doc,      \* frm.doc of the open form
    df,       \* docfield properties set by the scripts: reqd, read_only, enabled
    flags,    \* script globals: frappe.flags, frappe.ui.form.is_saving
    queue,    \* scheduled handlers: [dt, h, cdn]
    calls,    \* remote calls in flight: [method, cdn, arg]
    msgs,     \* messages shown by frappe.msgprint and not yet dismissed
    buttons,  \* custom buttons of the form
    page,     \* what else the scripts show: headline alert, chart, form message
    last,     \* history: the task (user action or callback) that ran last
    ran,      \* history: the handler that ran last, and how many ran since the task
    edits     \* history: number of user actions so far

vars == <<doc, df, flags, queue, calls, msgs, buttons, page, last, ran, edits>>

(***************************************************************************)
(* Bounds                                                                  *)
(***************************************************************************)
MaxEdits == 3

(***************************************************************************)
(* The system state as one value, so that a handler is a function from    *)
(* state to state and handler bodies compose in program order.             *)
(***************************************************************************)
Sys == [doc |-> doc, df |-> df, flags |-> flags, queue |-> queue,
        calls |-> calls, msgs |-> msgs, buttons |-> buttons, page |-> page]

Install(s) ==
    /\ doc' = s.doc
    /\ df' = s.df
    /\ flags' = s.flags
    /\ queue' = s.queue
    /\ calls' = s.calls
    /\ msgs' = s.msgs
    /\ buttons' = s.buttons
    /\ page' = s.page

RemoveAt(q, k) == SubSeq(q, 1, k - 1) \o SubSeq(q, k + 1, Len(q))

\* flt(n / d, precision): the quotient rounded to the field's precision (here
\* whole units, ties to even), for n >= 0 and d > 0.
flt_div(n, d) ==
    LET q == n \div d
        r == n % d
    IN  IF 2 * r > d \/ (2 * r = d /\ q % 2 = 1) THEN q + 1 ELSE q

Event(dt, h, cdn) == [dt |-> dt, h |-> h, cdn |-> cdn]
Call(method, cdn, arg) == [method |-> method, cdn |-> cdn, arg |-> arg]

frappe_call(s, method, cdn, arg) ==
    [s EXCEPT !.calls = Append(@, Call(method, cdn, arg))]

frappe_msgprint(s, message) == [s EXCEPT !.msgs = @ \cup {message}]

frm_trigger(s, h) == [s EXCEPT !.queue = Append(@, Event("Asset", h, 0))]

\* Fields of the Asset form that have a handler in asset.js.
AssetHandled == {"item_code", "is_existing_asset", "is_composite_asset",
                 "calculate_depreciation", "gross_purchase_amount",
                 "purchase_receipt", "purchase_invoice"}

\* frm.set_value(fieldname, value) on the parent document.  A child table is
\* replaced as a whole and schedules nothing.
frm_set_value(s, fieldname, value) ==
    IF s.doc[fieldname] = value
    THEN s
    ELSE LET s1 == [s EXCEPT !.doc[fieldname] = value]
         IN  IF fieldname \in AssetHandled
             THEN [s1 EXCEPT !.queue = Append(@, Event("Asset", fieldname, 0))]
             ELSE s1

\* Fields of a finance-book row that have a handler in asset.js.
BookHandled == {"depreciation_method", "expected_value_after_useful_life",
                "salvage_value_percentage", "frequency_of_depreciation",
                "total_number_of_depreciations", "rate_of_depreciation",
                "depreciation_start_date"}

\* frappe.model.set_value(row.doctype, row.name, fieldname, value) on a row of
\* finance_books; a row that no longer exists is left alone.
model_set_value(s, cdn, fieldname, value) ==
    IF cdn \notin DOMAIN s.doc.finance_books
    THEN s
    ELSE IF s.doc.finance_books[cdn][fieldname] = value
    THEN s
    ELSE LET s1 == [s EXCEPT !.doc.finance_books[cdn][fieldname] = value]
         IN  IF fieldname \in BookHandled
             THEN [s1 EXCEPT !.queue =
                        Append(@, Event("Asset Finance Book", fieldname, cdn))]
             ELSE s1

(***************************************************************************)
(* Asset: depreciation rate and salvage value of a finance-book row        *)
(***************************************************************************)

\* set_depreciation_rate(frm, row): asks the server for the rate when the row
\* has a number of depreciations, a frequency and an expected value.
set_depreciation_rate(s, cdn) ==
    LET row == s.doc.finance_books[cdn]
    IN  IF /\ row.total_number_of_depreciations # 0
           /\ row.frequency_of_depreciation # 0
           /\ row.expected_value_after_useful_life # 0
        THEN frappe_call(s, "get_depreciation_rate", cdn, 0)
        ELSE s

\* As set_depreciation_rate_callback, but without raising dont_change_rate.
set_depreciation_rate_callback_unflagged(s, cdn, message) ==
    IF message # 0
    THEN model_set_value(s, cdn, "rate_of_depreciation", message)
    ELSE s

\* The callback of get_depreciation_rate with r.message = message (0: none).
set_depreciation_rate_callback(s, cdn, message) ==
    IF message # 0
    THEN model_set_value([s EXCEPT !.flags.dont_change_rate = TRUE],
                         cdn, "rate_of_depreciation", message)
    ELSE s

set_salvage_value_percentage_or_expected_value_after_useful_life(s, cdn, salvage_value_percentage_changed, expected_value_after_useful_life_changed) ==
    LET row == s.doc.finance_books[cdn]
        raised == [s EXCEPT
            !.flags.from_set_salvage_value_percentage_or_expected_value_after_useful_life
                = TRUE]
    IN  IF expected_value_after_useful_life_changed
        THEN LET new_salvage_value_percentage ==
                     flt_div(row.expected_value_after_useful_life * 100,
                             s.doc.gross_purchase_amount)
             IN  [model_set_value(raised, cdn, "salvage_value_percentage",
                                  new_salvage_value_percentage) EXCEPT
                  !.flags.from_set_salvage_value_percentage_or_expected_value_after_useful_life
                      = FALSE]
        ELSE IF salvage_value_percentage_changed
        THEN LET new_expected_value_after_useful_life ==
                     flt_div(s.doc.gross_purchase_amount * row.salvage_value_percentage,
                             100)
             IN  [model_set_value(raised, cdn, "expected_value_after_useful_life",
                                  new_expected_value_after_useful_life) EXCEPT
                  !.flags.from_set_salvage_value_percentage_or_expected_value_after_useful_life
                      = FALSE]
        ELSE s

\* make_schedules_editable(frm)
make_schedules_editable(s) ==
    LET books == s.doc.finance_books
        is_manual_hence_editable ==
            \E i \in DOMAIN books : books[i].depreciation_method = "Manual"
        is_shift_hence_editable ==
            \E i \in DOMAIN books : books[i].shift_based
    IN  IF Len(books) # 0
        THEN [s EXCEPT !.df.enabled =
                  [schedules |-> is_manual_hence_editable \/ is_shift_hence_editable,
                   schedule_date |-> is_manual_hence_editable,
                   depreciation_amount |-> is_manual_hence_editable,
                   shift |-> is_shift_hence_editable]]
        ELSE s

\* Asset.gross_purchase_amount
gross_purchase_amount(s, cdn) ==
    LET RECURSIVE each(_, _)
        each(t, i) == IF i > Len(t.doc.finance_books) THEN t
                      ELSE each(set_depreciation_rate(t, i), i + 1)
    IN  each(s, 1)

(***************************************************************************)
(* Asset Finance Book handlers                                             *)
(***************************************************************************)
AFB_depreciation_method(s, cdn) ==
    make_schedules_editable(set_depreciation_rate(s, cdn))

AFB_expected_value_after_useful_life(s, cdn) ==
    LET s1 == IF ~s.flags.from_set_salvage_value_percentage_or_expected_value_after_useful_life
              THEN set_salvage_value_percentage_or_expected_value_after_useful_life(
                       s, cdn, FALSE, TRUE)
              ELSE s
    IN  set_depreciation_rate(s1, cdn)

AFB_salvage_value_percentage(s, cdn) ==
    IF ~s.flags.from_set_salvage_value_percentage_or_expected_value_after_useful_life
    THEN set_salvage_value_percentage_or_expected_value_after_useful_life(
             s, cdn, TRUE, FALSE)
    ELSE s

AFB_frequency_of_depreciation(s, cdn) == set_depreciation_rate(s, cdn)

AFB_total_number_of_depreciations(s, cdn) == set_depreciation_rate(s, cdn)

\* As AFB_rate_of_depreciation, but asking for the rate again afterwards.
AFB_rate_of_depreciation_asking_again(s, cdn) ==
    LET s1 == IF ~s.flags.dont_change_rate
              THEN model_set_value(s, cdn, "expected_value_after_useful_life", 0)
              ELSE s
    IN  set_depreciation_rate([s1 EXCEPT !.flags.dont_change_rate = FALSE], cdn)

\* Asset Finance Book.rate_of_depreciation
AFB_rate_of_depreciation(s, cdn) ==
    LET s1 == IF ~s.flags.dont_change_rate
              THEN model_set_value(s, cdn, "expected_value_after_useful_life", 0)
              ELSE s
    IN  [s1 EXCEPT !.flags.dont_change_rate = FALSE]


\* As AFB_depreciation_start_date, but only warning.
AFB_depreciation_start_date_warning_only(s, cdn) ==
    LET book == s.doc.finance_books[cdn]
    IN  IF /\ s.doc.available_for_use_date # 0
           /\ book.depreciation_start_date = s.doc.available_for_use_date
        THEN frappe_msgprint(s,
                 "Depreciation Posting Date should not be equal to Available for Use Date.")
        ELSE s

\* Asset Finance Book.depreciation_start_date.  The date is cleared by an
\* assignment to the row, which runs no handler; refresh_field redraws the grid.
AFB_depreciation_start_date(s, cdn) ==
    LET book == s.doc.finance_books[cdn]
    IN  IF /\ s.doc.available_for_use_date # 0
           /\ book.depreciation_start_date = s.doc.available_for_use_date
        THEN [frappe_msgprint(s,
                 "Depreciation Posting Date should not be equal to Available for Use Date.")
                EXCEPT !.doc.finance_books[cdn].depreciation_start_date = 0]
        ELSE s

(***************************************************************************)
(* Asset: reference documents                                              *)
(***************************************************************************)
toggle_reqd(s, fieldname, reqd) == [s EXCEPT !.df.reqd[fieldname] = reqd]

set_read_only(s, fieldname, read_only) ==
    [s EXCEPT !.df.read_only[fieldname] = read_only]

\* As toggle_reference_doc, but a set purchase receipt leaves the invoice editable.
toggle_reference_doc_invoice_editable(s, cdn) ==
    IF s.doc.purchase_receipt # "" /\ s.doc.purchase_invoice # "" /\ s.doc.docstatus = 1
    THEN set_read_only(set_read_only(s, "purchase_invoice", TRUE),
                       "purchase_receipt", TRUE)
    ELSE IF s.doc.is_existing_asset \/ s.doc.is_composite_asset
    THEN toggle_reqd(toggle_reqd(s, "purchase_receipt", FALSE),
                     "purchase_invoice", FALSE)
    ELSE IF s.doc.purchase_receipt # ""
    THEN toggle_reqd(s, "purchase_invoice", FALSE)
    ELSE IF s.doc.purchase_invoice # ""
    THEN set_read_only(toggle_reqd(s, "purchase_receipt", FALSE),
                       "purchase_receipt", TRUE)
    ELSE set_read_only(toggle_reqd(
             set_read_only(toggle_reqd(s, "purchase_receipt", TRUE),
                           "purchase_receipt", FALSE),
             "purchase_invoice", TRUE), "purchase_invoice", FALSE)

\* toggle_reference_doc(frm)
toggle_reference_doc(s, cdn) ==
    IF s.doc.purchase_receipt # "" /\ s.doc.purchase_invoice # "" /\ s.doc.docstatus = 1
    THEN set_read_only(set_read_only(s, "purchase_invoice", TRUE),
                       "purchase_receipt", TRUE)
    ELSE IF s.doc.is_existing_asset \/ s.doc.is_composite_asset
    THEN toggle_reqd(toggle_reqd(s, "purchase_receipt", FALSE),
                     "purchase_invoice", FALSE)
    ELSE IF s.doc.purchase_receipt # ""
    THEN set_read_only(toggle_reqd(s, "purchase_invoice", FALSE),
                       "purchase_invoice", TRUE)
    ELSE IF s.doc.purchase_invoice # ""
    THEN set_read_only(toggle_reqd(s, "purchase_receipt", FALSE),
                       "purchase_receipt", TRUE)
    ELSE set_read_only(toggle_reqd(
             set_read_only(toggle_reqd(s, "purchase_receipt", TRUE),
                           "purchase_receipt", FALSE),
             "purchase_invoice", TRUE), "purchase_invoice", FALSE)

\* Asset.is_existing_asset
is_existing_asset(s, cdn) == frm_trigger(s, "toggle_reference_doc")

\* Asset.is_composite_asset
is_composite_asset(s, cdn) ==
    LET s1 == IF s.doc.is_composite_asset
              THEN set_read_only(frm_set_value(s, "gross_purchase_amount", 0),
                                 "gross_purchase_amount", TRUE)
              ELSE set_read_only(s, "gross_purchase_amount", FALSE)
    IN  frm_trigger(s1, "toggle_reference_doc")

\* The purchase documents and items the server holds.  Dates are counted in
\* months, 0 is no date; "" is no value.  A valuation_rate is counted in
\* tenths of the unit of gross_purchase_amount: the server computes it by a
\* division and stores more digits than the precision of an amount.
RateUnit == 10

PurchaseLine(item_code, qty, valuation_rate, cost_center, asset_location) ==
    [item_code |-> item_code, qty |-> qty, valuation_rate |-> valuation_rate,
     cost_center |-> cost_center, asset_location |-> asset_location]

PurchaseDocs ==
    [name \in {"PR-1", "PR-2", "PI-1"} |->
        CASE name = "PR-1" ->
               [company |-> "Acme", bill_date |-> 0, posting_date |-> 610,
                cost_center |-> "Main",
                items |-> <<PurchaseLine("ITEM-A", 2, 1000, "", "Plant"),
                            PurchaseLine("ITEM-G", 3, 500, "Store", "")>>]
          [] name = "PR-2" ->
               [company |-> "Bolt", bill_date |-> 0, posting_date |-> 611,
                cost_center |-> "Main",
                items |-> <<PurchaseLine("ITEM-G", 4, 333, "", "")>>]
          [] OTHER ->
               [company |-> "Acme", bill_date |-> 605, posting_date |-> 612,
                cost_center |-> "Main",
                items |-> <<PurchaseLine("ITEM-A", 1, 1200, "Store", "")>>]]

ItemIsGroupedAsset == [item_code \in {"ITEM-A", "ITEM-G"} |-> item_code = "ITEM-G"]

\* frappe.scrub(doctype)
scrub(doctype) ==
    IF doctype = "Purchase Receipt" THEN "purchase_receipt" ELSE "purchase_invoice"

\* set_values_from_purchase_doc(frm, doctype, purchase_doc).  When no line of
\* the document has the asset's item, item is undefined and the function ends
\* with a TypeError at item.item_code, after the link was cleared and the
\* message shown.
set_values_from_purchase_doc(s, doctype, name) ==
    LET purchase_doc == PurchaseDocs[name]
        s1 == frm_set_value(s, "company", purchase_doc.company)
        s2 == IF purchase_doc.bill_date # 0
              THEN frm_set_value(s1, "purchase_date", purchase_doc.bill_date)
              ELSE frm_set_value(s1, "purchase_date", purchase_doc.posting_date)
        s3 == IF ~s2.doc.is_existing_asset /\ s2.doc.available_for_use_date = 0
              THEN frm_set_value(s2, "available_for_use_date", s2.doc.purchase_date)
              ELSE s2
        found == {i \in DOMAIN purchase_doc.items :
                     purchase_doc.items[i].item_code = s3.doc.item_code}
    IN  IF found = {}
        THEN frappe_msgprint(frm_set_value(s3, scrub(doctype), ""),
                 IF doctype = "Purchase Receipt"
                 THEN "The selected Purchase Receipt does not contain the selected Asset Item."
                 ELSE "The selected Purchase Invoice does not contain the selected Asset Item.")
        ELSE LET item == CHOOSE i \in found : \A j \in found : i <= j
             IN  frappe_call(s3, "get_value", item, [doctype |-> doctype, name |-> name])

\* As set_values_from_purchase_doc_callback, but with the amount of one unit
\* as purchase_receipt_amount.
set_values_from_purchase_doc_callback_unit_receipt(s, call, r) ==
    LET purchase_doc == PurchaseDocs[call.arg.name]
        item == purchase_doc.items[call.cdn]
        asset_quantity == IF r THEN item.qty ELSE 1
        purchase_amount == flt_div(item.valuation_rate * asset_quantity, RateUnit)
        s1 == frm_set_value(s, "gross_purchase_amount", purchase_amount)
        s2 == frm_set_value(s1, "purchase_receipt_amount",
                            flt_div(item.valuation_rate, RateUnit))
        s3 == frm_set_value(s2, "asset_quantity", asset_quantity)
        s4 == frm_set_value(s3, "cost_center",
                  IF item.cost_center # "" THEN item.cost_center
                  ELSE purchase_doc.cost_center)
    IN  IF item.asset_location # ""
        THEN frm_set_value(s4, "location", item.asset_location)
        ELSE s4

\* The callback of frappe.db.get_value('Item', item.item_code, 'is_grouped_asset').
\* item and purchase_doc are those of the call, whatever the form holds by now.
set_values_from_purchase_doc_callback(s, call, r) ==
    LET purchase_doc == PurchaseDocs[call.arg.name]
        item == purchase_doc.items[call.cdn]
        asset_quantity == IF r THEN item.qty ELSE 1
        purchase_amount == flt_div(item.valuation_rate * asset_quantity, RateUnit)
        s1 == frm_set_value(s, "gross_purchase_amount", purchase_amount)
        s2 == frm_set_value(s1, "purchase_receipt_amount", purchase_amount)
        s3 == frm_set_value(s2, "asset_quantity", asset_quantity)
        s4 == frm_set_value(s3, "cost_center",
                  IF item.cost_center # "" THEN item.cost_center
                  ELSE purchase_doc.cost_center)
    IN  IF item.asset_location # ""
        THEN frm_set_value(s4, "location", item.asset_location)
        ELSE s4

\* As purchase_link, but fetching the document whether or not an item is set.
purchase_link_unguarded(s, fieldname, doctype) ==
    LET s1 == frm_trigger(s, "toggle_reference_doc")
    IN  IF s1.doc[fieldname] # ""
        THEN frappe_call(s1, "get_doc", 0, [doctype |-> doctype, name |-> s1.doc[fieldname]])
        ELSE s1

\* The body shared by Asset.purchase_receipt and Asset.purchase_invoice.
purchase_link(s, fieldname, doctype) ==
    LET s1 == frm_trigger(s, "toggle_reference_doc")
    IN  IF s1.doc[fieldname] # ""
        THEN IF s1.doc.item_code # ""
             THEN frappe_call(s1, "get_doc", 0,
                              [doctype |-> doctype, name |-> s1.doc[fieldname]])
             ELSE frappe_msgprint(frm_set_value(s1, fieldname, ""),
                                  "Please select Item Code first")
        ELSE s1

\* Asset.purchase_receipt
purchase_receipt(s, cdn) == purchase_link(s, "purchase_receipt", "Purchase Receipt")

\* Asset.purchase_invoice
purchase_invoice(s, cdn) == purchase_link(s, "purchase_invoice", "Purchase Invoice")

\* The resolution of frappe.db.get_doc(doctype, name).
get_doc_then(s, call, message) ==
    set_values_from_purchase_doc(s, call.arg.doctype, call.arg.name)

(***************************************************************************)
(* Asset: finance books from the item                                      *)
(***************************************************************************)
\* set_finance_book(frm)
set_finance_book(s, cdn) ==
    frappe_call(s, "get_item_details", 0, [doctype |-> "Item", name |-> s.doc.item_code])

\* As set_finance_book_callback, but dropping the answer to a request that was
\* sent for another item than the form holds now.
set_finance_book_callback_current_only(s, call, message) ==
    IF message.set /\ call.arg.name = s.doc.item_code
    THEN frm_set_value(s, "finance_books", message.books)
    ELSE s

\* The callback of get_item_details; message.set is whether r.message is there.
set_finance_book_callback(s, call, message) ==
    IF message.set THEN frm_set_value(s, "finance_books", message.books) ELSE s

\* Asset.item_code
item_code(s, cdn) ==
    IF s.doc.item_code # "" /\ s.doc.calculate_depreciation /\ s.doc.gross_purchase_amount # 0
    THEN frm_trigger(s, "set_finance_book")
    ELSE frm_set_value(s, "finance_books", <<>>)

\* As calculate_depreciation, but asking for finance books whatever the gross
\* purchase amount.
calculate_depreciation_without_amount(s, cdn) ==
    LET s1 == toggle_reqd(s, "finance_books", s.doc.calculate_depreciation)
    IN  IF s1.doc.item_code # "" /\ s1.doc.calculate_depreciation
        THEN frm_trigger(s1, "set_finance_book")
        ELSE frm_set_value(s1, "finance_books", <<>>)

\* Asset.calculate_depreciation
calculate_depreciation(s, cdn) ==
    LET s1 == toggle_reqd(s, "finance_books", s.doc.calculate_depreciation)
    IN  IF s1.doc.item_code # "" /\ s1.doc.calculate_depreciation /\ s1.doc.gross_purchase_amount # 0
        THEN frm_trigger(s1, "set_finance_book")
        ELSE frm_set_value(s1, "finance_books", <<>>)

(***************************************************************************)
(* Asset: refresh and the value chart                                      *)
(***************************************************************************)
add_custom_button(s, label) == [s EXCEPT !.buttons = @ \cup {label}]

\* frappe.format(date, {fieldtype: 'Date'}): the date as the chart shows it.
format_date(date) == <<"Date", date>>

\* A point of the chart's dataset: a number, or null.
Value(n) == <<n>>
Null == <<>>

render_graph(s, x_intervals, asset_values) ==
    [s EXCEPT !.page.chart = [labels |-> x_intervals, values |-> asset_values]]

\* As setup_chart_render, but without the disposal point.
setup_chart_render_no_disposal(s, x_intervals, asset_values) ==
    render_graph(s, x_intervals, asset_values)

\* The end of setup_chart: the disposal point, then the graph.
setup_chart_render(s, x_intervals, asset_values) ==
    IF s.doc.status \in {"Scrapped", "Sold"}
    THEN render_graph(s, Append(x_intervals, format_date(s.doc.disposal_date)),
                      Append(asset_values, Value(0)))
    ELSE render_graph(s, x_intervals, asset_values)

\* The points setup_chart adds for the schedule rows from row i on.
RECURSIVE schedule_points(_, _, _, _)
schedule_points(d, i, x_intervals, asset_values) ==
    IF i > Len(d.schedules) THEN [labels |-> x_intervals, values |-> asset_values]
    ELSE LET v == d.schedules[i]
             asset_value == d.gross_purchase_amount - v.accumulated_depreciation_amount
         IN  schedule_points(d, i + 1,
                 Append(x_intervals, format_date(v.schedule_date)),
                 Append(asset_values,
                        IF v.journal_entry # "" THEN Value(asset_value)
                        ELSE IF d.status \in {"Scrapped", "Sold"} THEN Null
                        ELSE Value(asset_value)))

\* The points setup_chart adds for the manual depreciation entries from i on.
RECURSIVE entry_points(_, _, _, _)
entry_points(depr_entries, i, x_intervals, asset_values) ==
    IF i > Len(depr_entries) THEN [labels |-> x_intervals, values |-> asset_values]
    ELSE LET v == depr_entries[i]
             last_asset_value == asset_values[Len(asset_values)][1]
         IN  entry_points(depr_entries, i + 1,
                 Append(x_intervals, format_date(v.posting_date)),
                 Append(asset_values, Value(last_asset_value - v.value)))

\* setup_chart(frm), up to its await.  With calculate_depreciation, an opening
\* depreciation and no finance book, finance_books[0] is undefined and the
\* function ends with a TypeError.
setup_chart(s, cdn) ==
    LET d == s.doc
        x0 == <<format_date(d.purchase_date)>>
        v0 == <<Value(d.gross_purchase_amount)>>
        opening == Value(d.gross_purchase_amount - d.opening_accumulated_depreciation)
    IN  IF Len(d.finance_books) > 1 THEN s
        ELSE IF d.calculate_depreciation
        THEN IF d.opening_accumulated_depreciation # 0
             THEN IF Len(d.finance_books) = 0 THEN s
                  ELSE LET depreciation_date ==
                               d.finance_books[1].depreciation_start_date
                                   - d.finance_books[1].frequency_of_depreciation
                           pts == schedule_points(d, 1,
                                      Append(x0, format_date(depreciation_date)),
                                      Append(v0, opening))
                       IN  setup_chart_render(s, pts.labels, pts.values)
             ELSE LET pts == schedule_points(d, 1, x0, v0)
                  IN  setup_chart_render(s, pts.labels, pts.values)
        ELSE IF d.opening_accumulated_depreciation # 0
        THEN frappe_call(s, "get_manual_depreciation_entries", 0,
                 [labels |-> Append(x0, format_date(d.creation)),
                  values |-> Append(v0, opening)])
        ELSE frappe_call(s, "get_manual_depreciation_entries", 0,
                 [labels |-> x0, values |-> v0])

\* setup_chart(frm) after its await: depr_entries is the server's answer.
setup_chart_resume(s, call, depr_entries) ==
    LET pts == entry_points(depr_entries, 1, call.arg.labels, call.arg.values)
    IN  setup_chart_render(s, pts.labels, pts.values)

\* set_depr_posting_failure_alert(frm)
set_depr_posting_failure_alert(s, cdn) == [s EXCEPT !.page.headline_alert = TRUE]

\* As refresh_submitted, but offering Restore Asset for a sold asset too.
refresh_submitted_restore_sold(s) ==
    LET d == s.doc
        s1 == IF d.status \in {"Submitted", "Partially Depreciated", "Fully Depreciated"}
              THEN add_custom_button(add_custom_button(add_custom_button(s,
                       "Transfer Asset"), "Scrap Asset"), "Sell Asset")
              ELSE IF d.status \in {"Scrapped", "Sold"}
              THEN add_custom_button(s, "Restore Asset")
              ELSE s
    IN  frm_trigger(add_custom_button(add_custom_button(s1, "Repair Asset"),
                                      "Split Asset"), "setup_chart")

\* The buttons refresh adds for a submitted asset.
refresh_submitted(s) ==
    LET d == s.doc
        s1 == IF d.status \in {"Submitted", "Partially Depreciated", "Fully Depreciated"}
              THEN add_custom_button(add_custom_button(add_custom_button(s,
                       "Transfer Asset"), "Scrap Asset"), "Sell Asset")
              ELSE IF d.status = "Scrapped"
              THEN add_custom_button(s, "Restore Asset")
              ELSE s
        s2 == IF d.maintenance_required /\ d.maintenance_schedule = ""
              THEN add_custom_button(s1, "Maintain Asset")
              ELSE s1
        s3 == add_custom_button(add_custom_button(s2, "Repair Asset"), "Split Asset")
        s4 == IF d.status # "Fully Depreciated"
              THEN add_custom_button(s3, "Adjust Asset Value")
              ELSE s3
        s5 == IF ~d.calculate_depreciation
              THEN add_custom_button(s4, "Create Depreciation Entry")
              ELSE s4
        s6 == IF d.purchase_receipt # "" \/ ~d.is_existing_asset
              THEN add_custom_button(s5, "View General Ledger")
              ELSE s5
        s7 == IF d.depr_entry_posting_status = "Failed"
              THEN frm_trigger(s6, "set_depr_posting_failure_alert")
              ELSE s6
    IN  frm_trigger(s7, "setup_chart")

\* Asset.refresh.  The framework removes the custom buttons of the previous
\* refresh before it runs the handler.
refresh(s, cdn) ==
    LET s0 == [s EXCEPT !.buttons = {}]
        s1 == frm_trigger(s0, "is_existing_asset")
        s2 == [s1 EXCEPT !.df.display.next_depreciation_date = (s1.doc.docstatus < 1)]
        s3 == make_schedules_editable(s2)
        s4 == IF s3.doc.docstatus = 1 THEN refresh_submitted(s3) ELSE s3
        s5 == frm_trigger(s4, "toggle_reference_doc")
    IN  IF s5.doc.docstatus = 0
        THEN LET s6 == toggle_reqd(s5, "finance_books", s5.doc.calculate_depreciation)
             IN  IF s6.doc.is_composite_asset /\ s6.doc.capitalized_in = ""
                 THEN add_custom_button(
                          [s6 EXCEPT !.page.primary_action_hidden = TRUE,
                                     !.page.form_message = "Capitalize this asset to confirm"],
                          "Capitalize Asset")
                 ELSE s6
        ELSE s5

(***************************************************************************)
(* Depreciation Schedule                                                   *)
(***************************************************************************)
\* frappe.model.set_value on a row of schedules; of the fields written, only
\* depreciation_amount has a handler.
schedule_set_value(s, cdn, fieldname, value) ==
    IF s.doc.schedules[cdn][fieldname] = value
    THEN s
    ELSE LET s1 == [s EXCEPT !.doc.schedules[cdn][fieldname] = value]
         IN  IF fieldname = "depreciation_amount"
             THEN [s1 EXCEPT !.queue =
                        Append(@, Event("Depreciation Schedule", fieldname, cdn))]
             ELSE s1

\* As set_accumulated_depreciation, but starting the sum at zero.
set_accumulated_depreciation_from_zero(s, finance_book_id) ==
    LET RECURSIVE each(_, _, _)
        each(t, i, accumulated_depreciation) ==
            IF i > Len(t.doc.schedules) THEN t
            ELSE LET row == t.doc.schedules[i]
                 IN  IF row.finance_book_id = finance_book_id
                     THEN each(schedule_set_value(t, i, "accumulated_depreciation_amount",
                                   accumulated_depreciation + row.depreciation_amount),
                               i + 1, accumulated_depreciation + row.depreciation_amount)
                     ELSE each(t, i + 1, accumulated_depreciation)
    IN  IF finance_book_id \notin DOMAIN s.doc.finance_books THEN s
        ELSE IF s.doc.finance_books[finance_book_id].depreciation_method # "Manual" THEN s
        ELSE each(s, 1, 0)

\* erpnext.asset.set_accumulated_depreciation(frm, finance_book_id).  Without a
\* finance book of that number, finance_books[...] is undefined and the function
\* ends with a TypeError.
set_accumulated_depreciation(s, finance_book_id) ==
    LET RECURSIVE each(_, _, _)
        each(t, i, accumulated_depreciation) ==
            IF i > Len(t.doc.schedules) THEN t
            ELSE LET row == t.doc.schedules[i]
                 IN  IF row.finance_book_id = finance_book_id
                     THEN each(schedule_set_value(t, i, "accumulated_depreciation_amount",
                                   accumulated_depreciation + row.depreciation_amount),
                               i + 1, accumulated_depreciation + row.depreciation_amount)
                     ELSE each(t, i + 1, accumulated_depreciation)
    IN  IF finance_book_id \notin DOMAIN s.doc.finance_books THEN s
        ELSE IF s.doc.finance_books[finance_book_id].depreciation_method # "Manual" THEN s
        ELSE each(s, 1, s.doc.opening_accumulated_depreciation)


\* As DS_make_depreciation_entry, but requesting whatever the row holds.
DS_make_depreciation_entry_unguarded(s, cdn) ==
    frappe_call(s, "make_depreciation_entry", cdn, s.doc.schedules[cdn].schedule_date)

\* Depreciation Schedule.make_depreciation_entry: the button of schedule row cdn.
DS_make_depreciation_entry(s, cdn) ==
    LET row == s.doc.schedules[cdn]
    IN  IF row.journal_entry = ""
        THEN frappe_call(s, "make_depreciation_entry", cdn, row.schedule_date)
        ELSE s

\* frappe.model.sync(r.message): the form's rows take the journal entries of the
\* asset the server returned.
frappe_model_sync(s, message) ==
    [s EXCEPT !.doc.schedules =
        [i \in DOMAIN @ |-> [@[i] EXCEPT !.journal_entry = message[i]]]]

\* The completion of make_depreciation_entry: the callback when the request
\* succeeded (r.ok), with r.message the asset as the server returns it.
make_depreciation_entry_done(s, call, r) ==
    IF r.ok THEN frm_trigger(frappe_model_sync(s, r.message), "refresh") ELSE s

\* Depreciation Schedule.depreciation_amount
DS_depreciation_amount(s, cdn) ==
    set_accumulated_depreciation(s, s.doc.schedules[cdn].finance_book_id)

(***************************************************************************)
(* Asset: scrap and restore                                                *)
(***************************************************************************)
\* erpnext.asset.scrap_asset(frm): asks the user to confirm.
scrap_asset(s) == [s EXCEPT !.page.confirm = "scrap_asset"]

\* erpnext.asset.restore_asset(frm): asks the user to confirm.
restore_asset(s) == [s EXCEPT !.page.confirm = "restore_asset"]

\* The user confirms: the request is sent.
confirm_yes(s) == frappe_call([s EXCEPT !.page.confirm = ""], s.page.confirm, 0, 0)

\* cur_frm.reload_doc(), in the callback of scrap_asset and restore_asset: the
\* form takes the server's copy of the document and refreshes.  message is the
\* state the server's copy is in.
reload_doc(s, call, message) ==
    frm_trigger([s EXCEPT !.doc.docstatus = message.docstatus,
                          !.doc.status = message.status,
                          !.doc.disposal_date = message.disposal_date], "refresh")

(***************************************************************************)
(* Sales Order.  doc is then the Sales Order of the form, page what its    *)
(* scripts show and what the session allows, flags.is_saving is            *)
(* frappe.ui.form.is_saving.  Percentages are counted in units of 10^-7    *)
(* percent, one digit more than the six the scripts round to.              *)
(***************************************************************************)
Percent == 10000000
Hundred == 100 * Percent

\* flt(value, 6) and flt(value, 2) of a percentage.
flt6(value) == flt_div(value, 10) * 10
flt2(value) == flt_div(value, 100000) * 100000

add_group_button(s, label, group) ==
    [s EXCEPT !.buttons = @ \cup {[group |-> group, label |-> label]}]

\* update_status(label, status): the callback and always are in
\* update_status_done.
update_status(s, label, status) ==
    frappe_call([s EXCEPT !.flags.is_saving = TRUE], "update_status", 0, status)

\* me.frm.reload_doc() of the Sales Order form: the form takes the server's copy
\* of the order and refreshes.
order_reload_doc(s, state) ==
    [s EXCEPT !.doc.docstatus = state.docstatus,
              !.doc.status = state.status,
              !.queue = Append(@, Event("Sales Order", "refresh", 0))]

\* The completion of an update_status request: the callback when the request
\* succeeded (r.ok), with r.state the state of the server's copy, then always.
update_status_done(s, call, r) ==
    LET s1 == IF r.ok THEN order_reload_doc(s, r.state) ELSE s
    IN  [s1 EXCEPT !.flags.is_saving = FALSE]

\* close_sales_order()
close_sales_order(s) == update_status(s, "Close", "Closed")

\* The click functions of Resume and Re-open.
resume_sales_order(s) == update_status(s, "Resume", "Draft")
reopen_sales_order(s) == update_status(s, "Re-open", "Draft")

\* hold_sales_order(): a new dialog asking for the reason is shown.
hold_sales_order(s) ==
    [s EXCEPT !.page.dialogs = @ + 1, !.page.hold_dialog = s.page.dialogs + 1]

\* The dialog's primary_action.  reason_for_hold is mandatory: without it
\* d.get_values() is null and the function ends with a TypeError.
hold_primary_action(s, reason_for_hold) ==
    IF reason_for_hold = ""
    THEN s
    ELSE frappe_call(s, "add_comment", s.page.hold_dialog, reason_for_hold)

\* d.hide() of the dialog d.
dialog_hide(s, d) ==
    IF s.page.hold_dialog = d THEN [s EXCEPT !.page.hold_dialog = 0] ELSE s

\* As add_comment_done, but going on whether or not the comment was saved.
add_comment_done_unchecked(s, call, r) ==
    IF r = "error" THEN s
    ELSE dialog_hide(update_status(s, "Hold", "On Hold"), call.cdn)

\* The completion of add_comment: r is "ok", "exc" (the answer carries r.exc)
\* or "error" (the request failed and the callback is not called).
add_comment_done(s, call, r) ==
    IF r = "error" THEN s
    ELSE IF r = "ok"
    THEN dialog_hide(update_status(s, "Hold", "On Hold"), call.cdn)
    ELSE s

\* frappe.throw(message): the message is shown and the function that called it
\* ends with an exception.
frappe_throw(s, message) == frappe_msgprint(s, message)

RECURSIVE sum_ordered_qty(_, _)
sum_ordered_qty(packed_items, i) ==
    IF i > Len(packed_items) THEN 0
    ELSE packed_items[i].ordered_qty + sum_ordered_qty(packed_items, i + 1)

\* get_ordered_qty(item, so).  Quantities are whole numbers and the documents
\* of this model divide without remainder.
get_ordered_qty(item, so) ==
    LET packed_items == SelectSeq(so.packed_items,
                                  LAMBDA pi : pi.parent_detail_docname = item.name)
    IN  IF Len(packed_items) > 0
        THEN sum_ordered_qty(packed_items, 1) \div Len(packed_items)
        ELSE item.ordered_qty

\* The rows set_po_items_data builds from the order: one for each item with a
\* pending quantity, not selected.
RECURSIVE po_items(_, _)
po_items(so, i) ==
    IF i > Len(so.items) THEN <<>>
    ELSE LET d == so.items[i]
             pending_qty == (d.stock_qty - get_ordered_qty(d, so)) \div d.conversion_factor
         IN  (IF pending_qty > 0
              THEN <<[name |-> d.name, item_code |-> d.item_code,
                      pending_qty |-> pending_qty, supplier |-> d.supplier,
                      checked |-> FALSE]>>
              ELSE <<>>) \o po_items(so, i + 1)

\* set_po_items_data(dialog)
set_po_items_data(s) ==
    LET dialog == s.page.po_dialog
    IN  IF dialog.against_default_supplier
        THEN [s EXCEPT !.page.po_dialog.items_for_po =
                          SelectSeq(dialog.items_for_po, LAMBDA item : item.supplier # "")]
        ELSE [s EXCEPT !.page.po_dialog.items_for_po = po_items(s.doc, 1)]

\* The click on the check box of the grid's heading row: every row is selected,
\* or none when every row was.
grid_row_check_click(s) ==
    LET rows == s.page.po_dialog.items_for_po
        all == \A i \in DOMAIN rows : rows[i].checked
    IN  [s EXCEPT !.page.po_dialog.items_for_po =
                      [i \in DOMAIN rows |-> [rows[i] EXCEPT !.checked = ~all]]]

NoPoDialog == [open |-> FALSE, against_default_supplier |-> FALSE, items_for_po |-> <<>>]

\* As make_purchase_order, but showing the dialog after the message.
make_purchase_order_not_thrown(s) ==
    LET items == s.doc.items
        pending_items == \E i \in DOMAIN items : items[i].stock_qty - items[i].ordered_qty > 0
        s1 == IF ~pending_items
              THEN frappe_throw(s, "Purchase Order already created for all Sales Order items")
              ELSE s
        s2 == set_po_items_data([s1 EXCEPT !.page.po_dialog = NoPoDialog])
        s3 == grid_row_check_click(s2)
    IN  [s3 EXCEPT !.page.po_dialog.open = TRUE]

\* make_purchase_order()
make_purchase_order(s) ==
    LET items == s.doc.items
        pending_items == \E i \in DOMAIN items : items[i].stock_qty - items[i].ordered_qty > 0
    IN  IF ~pending_items
        THEN frappe_throw(s, "Purchase Order already created for all Sales Order items")
        ELSE LET s1 == set_po_items_data([s EXCEPT !.page.po_dialog = NoPoDialog])
                 s2 == grid_row_check_click(s1)
             IN  [s2 EXCEPT !.page.po_dialog.open = TRUE]

\* The primary_action of the dialog of make_purchase_order.  The dialog has no
\* mandatory field, so args is never null.
po_primary_action(s) ==
    LET dialog == s.page.po_dialog
        selected_items == SelectSeq(dialog.items_for_po, LAMBDA item : item.checked)
    IN  IF Len(selected_items) = 0
        THEN frappe_throw(s, "Please select Items from the Table")
        ELSE frappe_call([s EXCEPT !.page.po_dialog.open = FALSE],
                 IF dialog.against_default_supplier
                 THEN "make_purchase_order_for_default_supplier"
                 ELSE "make_purchase_order",
                 0,
                 [against_default_supplier |-> dialog.against_default_supplier,
                  selected_items |-> [i \in DOMAIN selected_items |-> selected_items[i].name]])

\* The callback of the purchase-order request: r is TRUE when the answer
\* carries no r.exc.
po_callback(s, call, r) ==
    IF r
    THEN IF ~call.arg.against_default_supplier
         THEN [s EXCEPT !.page.route = "Form/Purchase Order"]
         ELSE [s EXCEPT !.page.route = "List/Purchase Order"]
    ELSE s

\* [...new Set(dates)]: the dates from i on that are not in seen yet, in the
\* order of their first occurrence.
RECURSIVE unique(_, _, _)
unique(dates, i, seen) ==
    IF i > Len(dates) THEN seen
    ELSE unique(dates, i + 1,
                IF \E k \in DOMAIN seen : seen[k] = dates[i]
                THEN seen ELSE Append(seen, dates[i]))

\* The argument of make_delivery_note: undefined, or an array of dates.
Undefined == [defined |-> FALSE, dates |-> <<>>]
Array(dates) == [defined |-> TRUE, dates |-> dates]

NoDnDialog == [open |-> FALSE, dates |-> <<>>, checked |-> {}]

\* make_delivery_note(delivery_dates): open_mapped_doc requests the delivery
\* note of the order from the server.
make_delivery_note(s, delivery_dates) ==
    frappe_call(s, "make_delivery_note", 0, delivery_dates)

\* make_delivery_note_based_on_delivery_date().  page.selected is
\* item_grid.get_selected(); the dialog shows one checked box per date.
make_delivery_note_based_on_delivery_date(s) ==
    LET items == s.doc.items
        delivery_dates == unique([i \in DOMAIN items |-> items[i].delivery_date], 1, <<>>)
    IN  IF s.page.selected = {} /\ Len(delivery_dates) > 1
        THEN [s EXCEPT !.page.dn_dialog =
                 [open |-> TRUE, dates |-> delivery_dates,
                  checked |-> {delivery_dates[k] : k \in DOMAIN delivery_dates}]]
        ELSE make_delivery_note(s, Undefined)

\* The primary action 'Select' of the dialog.  dates is the array of the
\* checked dates; an array, empty or not, is truthy, so 'if(!dates) return'
\* never returns.
dn_primary_action(s) ==
    LET dialog == s.page.dn_dialog
        dates == SelectSeq(dialog.dates, LAMBDA date : date \in dialog.checked)
    IN  [make_delivery_note(s, Array(dates)) EXCEPT !.page.dn_dialog.open = FALSE]

\* The completion of the delivery-note request: r is TRUE when the server
\* returned the mapped document, which the browser then opens.
dn_callback(s, call, r) ==
    IF r THEN [s EXCEPT !.page.route = "Form/Delivery Note"] ELSE s

\* frm.set_value(fieldname, value) on the Sales Order; of the fields written
\* here, delivery_date has a handler.
order_set_value(s, fieldname, value) ==
    IF s.doc[fieldname] = value
    THEN s
    ELSE LET s1 == [s EXCEPT !.doc[fieldname] = value]
         IN  IF fieldname = "delivery_date"
             THEN [s1 EXCEPT !.queue = Append(@, Event("Sales Order", fieldname, 0))]
             ELSE s1

\* Fields of an item row of the order that have a handler here.
ItemHandled == {"item_code", "delivery_date"}

\* frappe.model.set_value on item row cdn of the order.
item_set_value(s, cdn, fieldname, value) ==
    IF s.doc.items[cdn][fieldname] = value
    THEN s
    ELSE LET s1 == [s EXCEPT !.doc.items[cdn][fieldname] = value]
         IN  IF fieldname \in ItemHandled
             THEN [s1 EXCEPT !.queue = Append(@, Event("Sales Order Item", fieldname, cdn))]
             ELSE s1

\* As SO_delivery_date, but writing the date into every row.
SO_delivery_date_every_row(s, cdn) ==
    [s EXCEPT !.doc.items =
        [i \in DOMAIN @ |-> [@[i] EXCEPT !.delivery_date = s.doc.delivery_date]]]

\* Sales Order.delivery_date: the rows are assigned to, so no handler of a row
\* runs.
SO_delivery_date(s, cdn) ==
    [s EXCEPT !.doc.items =
        [i \in DOMAIN @ |->
            IF @[i].delivery_date = 0
            THEN [@[i] EXCEPT !.delivery_date = s.doc.delivery_date]
            ELSE @[i]]]

\* frm.script_manager.copy_from_first_row(parentfield, current_row, fieldname)
copy_from_first_row(s, cdn, fieldname) ==
    IF Len(s.doc.items) = 1 \/ cdn = 1
    THEN s
    ELSE item_set_value(s, cdn, fieldname, s.doc.items[1][fieldname])

\* Sales Order Item.item_code
SOI_item_code(s, cdn) ==
    IF s.doc.delivery_date # 0
    THEN [s EXCEPT !.doc.items[cdn].delivery_date = s.doc.delivery_date]
    ELSE copy_from_first_row(s, cdn, "delivery_date")

\* erpnext.utils.copy_value_in_all_rows(doc, cdt, cdn, "items", fieldname): the
\* value of row cdn is copied to all rows.
copy_value_in_all_rows(s, cdn, fieldname) ==
    [s EXCEPT !.doc.items =
        [i \in DOMAIN @ |-> [@[i] EXCEPT ![fieldname] = s.doc.items[cdn][fieldname]]]]

\* Sales Order Item.delivery_date
SOI_delivery_date(s, cdn) ==
    IF s.doc.delivery_date = 0
    THEN copy_value_in_all_rows(s, cdn, "delivery_date")
    ELSE s

\* frappe.ui.form.on("Sales Order").refresh
order_form_refresh(s) ==
    LET d == s.doc
        s1 == IF /\ d.docstatus = 1
                 /\ d.status # "Closed"
                 /\ flt6(d.per_delivered) < Hundred
                 /\ flt6(d.per_billed) < Hundred
              THEN add_group_button(s, "Update Items", "")
              ELSE s
    IN  IF d.docstatus = 0 /\ d.is_internal_customer
        THEN add_group_button(s1, "Purchase Order", "Get Items From")
        ELSE s1

\* SalesOrderController.refresh, the buttons for a user with submit permission
\* on an order on hold or closed.
refresh_resume_reopen(s) ==
    LET d == s.doc
    IN  IF d.status = "On Hold"
        THEN LET s1 == add_group_button(s, "Resume", "Status")
             IN  IF flt6(d.per_delivered) < Hundred \/ d.per_billed < Hundred
                 THEN add_group_button(s1, "Close", "Status")
                 ELSE s1
        ELSE IF d.status = "Closed"
        THEN add_group_button(s, "Re-open", "Status")
        ELSE s

\* As refresh_hold_close, but whatever was delivered and billed.
refresh_hold_close_always(s) ==
    IF s.page.perm_submit
    THEN add_group_button(add_group_button(s, "Hold", "Status"), "Close", "Status")
    ELSE s

\* SalesOrderController.refresh, Hold and Close of an order neither on hold nor
\* closed.
refresh_hold_close(s) ==
    LET d == s.doc
    IN  IF s.page.perm_submit
        THEN IF flt6(d.per_delivered) < Hundred \/ d.per_billed < Hundred
             THEN add_group_button(add_group_button(s, "Hold", "Status"),
                                   "Close", "Status")
             ELSE s
        ELSE s

\* SalesOrderController.refresh, the Create buttons of an order neither on hold
\* nor closed.
refresh_create(s) ==
    LET d == s.doc
        allow_delivery ==
            /\ \E i \in DOMAIN d.items :
                  d.items[i].delivered_by_supplier = 0
                  /\ d.items[i].qty > d.items[i].delivered_qty
            /\ ~d.skip_delivery_note
        order_is_a_sale == d.order_type \in {"Sales", "Shopping Cart"}
        order_is_maintenance == d.order_type = "Maintenance"
        order_is_a_custom_sale == d.order_type \notin {"Sales", "Shopping Cart", "Maintenance"}
        s1 == refresh_hold_close(s)
        s2 == IF flt6(d.per_picked) < Hundred /\ flt6(d.per_delivered) < Hundred
              THEN add_group_button(s1, "Pick List", "Create")
              ELSE s1
        s3 == IF /\ flt6(d.per_delivered) < Hundred
                 /\ (order_is_a_sale \/ order_is_a_custom_sale)
                 /\ allow_delivery
              THEN add_group_button(add_group_button(s2, "Delivery Note", "Create"),
                                    "Work Order", "Create")
              ELSE s2
        s4 == IF flt6(d.per_billed) < Hundred
              THEN add_group_button(s3, "Sales Invoice", "Create")
              ELSE s3
        s5 == IF \/ d.order_type = ""
                 \/ ((order_is_a_sale \/ order_is_a_custom_sale)
                        /\ flt6(d.per_delivered) < Hundred)
              THEN add_group_button(add_group_button(s4, "Material Request", "Create"),
                                    "Request for Raw Materials", "Create")
              ELSE s4
        s6 == IF ~d.is_internal_customer
              THEN add_group_button(s5, "Purchase Order", "Create")
              ELSE s5
        s7 == IF /\ flt2(d.per_delivered) < Hundred
                 /\ (order_is_maintenance \/ order_is_a_custom_sale)
              THEN add_group_button(add_group_button(s6, "Maintenance Visit", "Create"),
                                    "Maintenance Schedule", "Create")
              ELSE s6
        s8 == IF flt2(d.per_delivered) < Hundred
              THEN add_group_button(s7, "Project", "Create")
              ELSE s7
        s9 == IF d.auto_repeat = ""
              THEN add_group_button(s8, "Subscription", "Create")
              ELSE s8
    IN  IF d.docstatus = 1 /\ d.inter_company_order_reference = "" /\ d.is_internal_customer
        THEN add_group_button(s9,
                 IF d.company = d.represents_company
                 THEN "Internal Purchase Order"
                 ELSE "Inter Company Purchase Order", "Create")
        ELSE s9

\* toggle_delivery_date()
toggle_delivery_date(s) ==
    [s EXCEPT !.page.delivery_date_reqd =
                  (s.doc.order_type = "Sales" /\ ~s.doc.skip_delivery_note)]

\* SalesOrderController.refresh.  super.refresh() is the framework's; the field
\* precision of per_billed is taken as two digits.
order_controller_refresh(s) ==
    LET d == s.doc
        s1 == IF d.docstatus = 1 /\ s.page.perm_submit
              THEN refresh_resume_reopen(s)
              ELSE s
        s2 == IF d.docstatus = 1 /\ d.status # "Closed"
              THEN LET s3 == IF d.status # "On Hold" THEN refresh_create(s1) ELSE s1
                       s4 == IF flt2(d.per_billed) < Hundred + s.page.over_billing_allowance
                             THEN add_group_button(
                                      add_group_button(s3, "Payment Request", "Create"),
                                      "Payment", "Create")
                             ELSE s3
                   IN  [s4 EXCEPT !.page.primary_group = "Create"]
              ELSE s1
        s5 == IF d.docstatus = 0
              THEN add_group_button(s2, "Quotation", "Get Items From")
              ELSE s2
    IN  toggle_delivery_date(s5)

\* The refresh of the Sales Order form: the framework removes the custom
\* buttons, then runs the two refresh handlers.
order_refresh(s, cdn) ==
    order_controller_refresh(order_form_refresh([s EXCEPT !.buttons = {}]))

(***************************************************************************)
(* TaxJar Settings.  doc is then the settings document, df.reqd the        *)
(* requiredness of its two keys.                                           *)
(***************************************************************************)
\* As TJ_is_sandbox, but with the sandbox key always required.
TJ_is_sandbox_key_always(s, cdn) ==
    toggle_reqd(toggle_reqd(s, "api_key", ~s.doc.is_sandbox), "sandbox_api_key", TRUE)

\* TaxJar Settings.is_sandbox
TJ_is_sandbox(s, cdn) ==
    toggle_reqd(toggle_reqd(s, "api_key", ~s.doc.is_sandbox),
                "sandbox_api_key", s.doc.is_sandbox)

\* The click function of 'Update Nexus List': frm.call without callback.
update_nexus_list(s) == frappe_call(s, "update_nexus_list", 0, 0)

update_nexus_list_done(s, call, r) == s

\* TaxJar Settings.refresh; the framework removes the custom buttons first.
TJ_refresh(s, cdn) == add_custom_button([s EXCEPT !.buttons = {}], "Update Nexus List")

(***************************************************************************)
(* Documents                                                               *)
(***************************************************************************)
BlankBook ==
    [depreciation_method |-> "Straight Line",
     total_number_of_depreciations |-> 0,
     frequency_of_depreciation |-> 0,
     expected_value_after_useful_life |-> 0,
     salvage_value_percentage |-> 0,
     rate_of_depreciation |-> 0,
     depreciation_start_date |-> 0,
     shift_based |-> FALSE]

FilledBook ==
    [BlankBook EXCEPT !.total_number_of_depreciations = 5,
                      !.frequency_of_depreciation = 12,
                      !.expected_value_after_useful_life = 150,
                      !.salvage_value_percentage = 50,
                      !.rate_of_depreciation = 10]

\* A new Asset document as the form opens it.
NewAsset ==
    [item_code |-> "",
     company |-> "",
     is_existing_asset |-> FALSE,
     is_composite_asset |-> FALSE,
     calculate_depreciation |-> FALSE,
     gross_purchase_amount |-> 0,
     purchase_receipt_amount |-> 0,
     asset_quantity |-> 0,
     purchase_receipt |-> "",
     purchase_invoice |-> "",
     purchase_date |-> 0,
     available_for_use_date |-> 0,
     creation |-> 600,
     cost_center |-> "",
     location |-> "",
     opening_accumulated_depreciation |-> 0,
     finance_books |-> <<>>,
     schedules |-> <<>>,
     docstatus |-> 0,
     status |-> "Draft",
     maintenance_required |-> FALSE,
     maintenance_schedule |-> "",
     capitalized_in |-> "",
     depr_entry_posting_status |-> "",
     disposal_date |-> 0]

NoChart == [labels |-> <<>>, values |-> <<>>]

NewPage ==
    [headline_alert |-> FALSE, primary_action_hidden |-> FALSE,
     form_message |-> "", chart |-> NoChart, confirm |-> ""]

NewDf ==
    [display |-> [next_depreciation_date |-> TRUE],
     reqd |-> [purchase_receipt |-> FALSE, purchase_invoice |-> FALSE,
               finance_books |-> FALSE],
     read_only |-> [purchase_receipt |-> FALSE, purchase_invoice |-> FALSE,
                    gross_purchase_amount |-> FALSE],
     enabled |-> [schedules |-> FALSE, schedule_date |-> FALSE,
                  depreciation_amount |-> FALSE, shift |-> FALSE]]

NewFlags ==
    [dont_change_rate |-> FALSE,
     from_set_salvage_value_percentage_or_expected_value_after_useful_life |-> FALSE]

NoRun == [dt |-> "", h |-> "", cdn |-> 0, n |-> 0]

NoTask == [task |-> "none", field |-> "", cdn |-> 0, value |-> 0, arg |-> 0]
EditTask(field, cdn, value) ==
    [task |-> "edit", field |-> field, cdn |-> cdn, value |-> value, arg |-> 0]
CallbackTask(call, value) ==
    [task |-> "callback", field |-> call.method, cdn |-> call.cdn, value |-> value,
     arg |-> call.arg]

(***************************************************************************)
(* Tasks and handler runs common to the Asset specifications               *)
(***************************************************************************)
Idle == queue = <<>>

\* The user changes a field of finance-book row cdn in the grid.  last.value
\* is the number entered; the method chosen is read from the row.
UserEditsBook(cdn, fieldname, value) ==
    /\ Idle
    /\ edits < MaxEdits
    /\ doc.docstatus = 0
    /\ cdn \in DOMAIN doc.finance_books
    /\ doc.finance_books[cdn][fieldname] # value
    /\ Install(model_set_value(Sys, cdn, fieldname, value))
    /\ last' = EditTask(fieldname, cdn,
                        IF fieldname = "depreciation_method" THEN 0 ELSE value)
    /\ ran' = NoRun
    /\ edits' = edits + 1

\* The user changes a field of the Asset form; a submitted or cancelled document
\* and a read-only field cannot be edited.
UserEdits(fieldname, value) ==
    /\ Idle
    /\ edits < MaxEdits
    /\ doc.docstatus = 0
    /\ fieldname \in DOMAIN df.read_only => ~df.read_only[fieldname]
    /\ doc[fieldname] # value
    /\ Install(frm_set_value(Sys, fieldname, value))
    /\ last' = EditTask(fieldname, 0, value)
    /\ ran' = NoRun
    /\ edits' = edits + 1

\* A scheduled handler of (dt, h) runs: Handler is its body.
Runs(dt, h, Handler(_, _)) ==
    \E k \in DOMAIN queue :
        /\ queue[k].dt = dt
        /\ queue[k].h = h
        /\ Install(Handler([Sys EXCEPT !.queue = RemoveAt(queue, k)], queue[k].cdn))
        /\ ran' = [dt |-> dt, h |-> h, cdn |-> queue[k].cdn, n |-> ran.n + 1]
        /\ UNCHANGED <<last, edits>>

\* A remote call of the given method completes; Callback is its callback and
\* message the server's answer.
Returns(method, Messages, Callback(_, _, _)) ==
    /\ Idle
    /\ \E k \in DOMAIN calls, message \in Messages :
        /\ calls[k].method = method
        /\ Install(Callback([Sys EXCEPT !.calls = RemoveAt(calls, k)],
                            calls[k], message))
        /\ last' = CallbackTask(calls[k], message)
        /\ ran' = NoRun
        /\ UNCHANGED edits

(***************************************************************************)
(* SpecBooks: editing the finance books of an asset                        *)
(***************************************************************************)
Rates == {0, 10, 20}
ExpectedValues == {0, 1, 150}
Percentages == {0, 50}
GrossAmounts == {100, 300}
BookTables == {<<FilledBook, FilledBook>>, <<FilledBook, BlankBook>>}

InitBooks ==
    /\ \E books \in BookTables :
          doc = [NewAsset EXCEPT !.item_code = "ITEM-A",
                                 !.calculate_depreciation = TRUE,
                                 !.gross_purchase_amount = 300,
                                 !.finance_books = books]
    /\ df = NewDf
    /\ flags = NewFlags
    /\ queue = <<>>
    /\ calls = <<>>
    /\ msgs = {}
    /\ buttons = {}
    /\ page = NewPage
    /\ last = NoTask
    /\ ran = NoRun
    /\ edits = 0

EditRate == \E cdn \in 1..2, v \in Rates : UserEditsBook(cdn, "rate_of_depreciation", v)
EditExpectedValue == \E cdn \in 1..2, v \in ExpectedValues : UserEditsBook(cdn, "expected_value_after_useful_life", v)
EditSalvagePercentage == \E cdn \in 1..2, v \in Percentages : UserEditsBook(cdn, "salvage_value_percentage", v)
Frequencies == {0, 12}
NumbersOfDepreciations == {0, 5}
Methods == {"Manual", "Straight Line"}

EditFrequency == \E cdn \in 1..2, v \in Frequencies : UserEditsBook(cdn, "frequency_of_depreciation", v)
EditTotalNumber == \E cdn \in 1..2, v \in NumbersOfDepreciations : UserEditsBook(cdn, "total_number_of_depreciations", v)
EditMethod == \E cdn \in 1..2, v \in Methods : UserEditsBook(cdn, "depreciation_method", v)
EditGross == \E v \in GrossAmounts : UserEdits("gross_purchase_amount", v)

RunRate == Runs("Asset Finance Book", "rate_of_depreciation", AFB_rate_of_depreciation)
RunExpectedValue == Runs("Asset Finance Book", "expected_value_after_useful_life", AFB_expected_value_after_useful_life)
RunSalvagePercentage == Runs("Asset Finance Book", "salvage_value_percentage", AFB_salvage_value_percentage)
RunFrequency == Runs("Asset Finance Book", "frequency_of_depreciation", AFB_frequency_of_depreciation)
RunTotalNumber == Runs("Asset Finance Book", "total_number_of_depreciations", AFB_total_number_of_depreciations)
RunMethod == Runs("Asset Finance Book", "depreciation_method", AFB_depreciation_method)
RunGross == Runs("Asset", "gross_purchase_amount", gross_purchase_amount)

DepreciationRateCallback(s, call, message) ==
    set_depreciation_rate_callback(s, call.cdn, message)

DepreciationRateReturns ==
    Returns("get_depreciation_rate", Rates, DepreciationRateCallback)

NextBooks ==
    \/ EditRate
    \/ EditExpectedValue
    \/ EditSalvagePercentage
    \/ EditFrequency
    \/ EditTotalNumber
    \/ EditMethod
    \/ EditGross
    \/ RunRate
    \/ RunExpectedValue
    \/ RunSalvagePercentage
    \/ RunFrequency
    \/ RunTotalNumber
    \/ RunMethod
    \/ RunGross
    \/ DepreciationRateReturns

SpecBooks == InitBooks /\ [][NextBooks]_vars

\* The steps the browser takes by itself: a pending handler runs, the answer
\* to a request arrives.
BookCascade ==
    \/ RunRate
    \/ RunExpectedValue
    \/ RunSalvagePercentage
    \/ RunFrequency
    \/ RunTotalNumber
    \/ RunMethod
    \/ RunGross
    \/ DepreciationRateReturns

(***************************************************************************)
(* SpecCascade: one edit of the finance books of an asset in any state the *)
(* form can rest in, and what follows from it.  Every pending handler runs *)
(* and every request is answered.                                          *)
(***************************************************************************)
\* The rows the first finance book may be when the edit is made.
CascadeBooks ==
    {[BlankBook EXCEPT !.total_number_of_depreciations = n,
                       !.frequency_of_depreciation = f,
                       !.expected_value_after_useful_life = e,
                       !.salvage_value_percentage = p,
                       !.rate_of_depreciation = r] :
        n \in NumbersOfDepreciations, f \in Frequencies, e \in ExpectedValues,
        p \in Percentages, r \in Rates}

InitCascade ==
    /\ \E book \in CascadeBooks, gross \in GrossAmounts :
          doc = [NewAsset EXCEPT !.item_code = "ITEM-A",
                                 !.calculate_depreciation = TRUE,
                                 !.gross_purchase_amount = gross,
                                 !.finance_books = <<book, FilledBook>>]
    /\ df = NewDf
    /\ \E b \in BOOLEAN : flags = [NewFlags EXCEPT !.dont_change_rate = b]
    /\ queue = <<>>
    /\ calls = <<>>
    /\ msgs = {}
    /\ buttons = {}
    /\ page = NewPage
    /\ last = NoTask
    /\ ran = NoRun
    /\ edits = 0

\* The user's one edit.
OneEdit ==
    /\ edits = 0
    /\ \/ EditRate
       \/ EditExpectedValue
       \/ EditSalvagePercentage
       \/ EditFrequency
       \/ EditTotalNumber
       \/ EditMethod
       \/ EditGross

NextCascade ==
    \/ OneEdit
    \/ BookCascade

SpecCascade == InitCascade /\ [][NextCascade]_vars /\ WF_vars(BookCascade)

(***************************************************************************)
(* SpecLinks: item and purchase documents of an asset.  The form opens on  *)
(* a document and refreshes; no docfield property has been set by a script *)
(* yet.                                                                    *)
(***************************************************************************)
SubmittedAsset ==
    [NewAsset EXCEPT !.item_code = "ITEM-A", !.company = "Acme",
                     !.gross_purchase_amount = 100, !.asset_quantity = 1,
                     !.purchase_date = 610, !.available_for_use_date = 610,
                     !.docstatus = 1, !.status = "Submitted"]

LinkDocs ==
    {NewAsset, [NewAsset EXCEPT !.item_code = "ITEM-G"]}
    \cup {[SubmittedAsset EXCEPT !.purchase_receipt = pr, !.purchase_invoice = "PI-1",
                                 !.is_existing_asset = e]
             : pr \in {"", "PR-1"}, e \in BOOLEAN}

InitLinks ==
    /\ doc \in LinkDocs
    /\ df = NewDf
    /\ flags = NewFlags
    /\ queue = <<Event("Asset", "refresh", 0)>>
    /\ calls = <<>>
    /\ msgs = {}
    /\ buttons = {}
    /\ page = NewPage
    /\ last = NoTask
    /\ ran = NoRun
    /\ edits = 0

ItemCodes == {"", "ITEM-A", "ITEM-G"}
PurchaseReceipts == {"", "PR-1", "PR-2"}
PurchaseInvoices == {"", "PI-1"}

EditItemCode == \E v \in ItemCodes : UserEdits("item_code", v)
EditPurchaseReceipt == \E v \in PurchaseReceipts : UserEdits("purchase_receipt", v)
EditPurchaseInvoice == \E v \in PurchaseInvoices : UserEdits("purchase_invoice", v)
EditIsExistingAsset == \E v \in BOOLEAN : UserEdits("is_existing_asset", v)
EditIsCompositeAsset == \E v \in BOOLEAN : UserEdits("is_composite_asset", v)

\* The user closes the message dialogs.
DismissMessages ==
    /\ Idle
    /\ msgs # {}
    /\ msgs' = {}
    /\ UNCHANGED <<doc, df, flags, queue, calls, buttons, page, last, ran, edits>>

RunRefresh == Runs("Asset", "refresh", refresh)
RunItemCode == Runs("Asset", "item_code", item_code)
RunPurchaseReceipt == Runs("Asset", "purchase_receipt", purchase_receipt)
RunPurchaseInvoice == Runs("Asset", "purchase_invoice", purchase_invoice)
RunIsExistingAsset == Runs("Asset", "is_existing_asset", is_existing_asset)
RunIsCompositeAsset == Runs("Asset", "is_composite_asset", is_composite_asset)
RunToggleReferenceDoc == Runs("Asset", "toggle_reference_doc", toggle_reference_doc)
RunSetupChart == Runs("Asset", "setup_chart", setup_chart)

\* What get_manual_depreciation_entries may answer.
DepreciationEntries == {<<>>, <<[posting_date |-> 620, value |-> 40]>>}

GetDocReturns == Returns("get_doc", {TRUE}, get_doc_then)

GetValueCallback(s, call, message) ==
    set_values_from_purchase_doc_callback(s, call,
        ItemIsGroupedAsset[PurchaseDocs[call.arg.name].items[call.cdn].item_code])

GetValueReturns == Returns("get_value", {TRUE}, GetValueCallback)

ManualEntriesReturn ==
    Returns("get_manual_depreciation_entries", DepreciationEntries, setup_chart_resume)

NextLinks ==
    \/ EditItemCode
    \/ EditPurchaseReceipt
    \/ EditPurchaseInvoice
    \/ EditIsExistingAsset
    \/ EditIsCompositeAsset
    \/ DismissMessages
    \/ RunRefresh
    \/ RunItemCode
    \/ RunPurchaseReceipt
    \/ RunPurchaseInvoice
    \/ RunIsExistingAsset
    \/ RunIsCompositeAsset
    \/ RunToggleReferenceDoc
    \/ RunGross
    \/ RunSetupChart
    \/ GetDocReturns
    \/ GetValueReturns
    \/ ManualEntriesReturn

SpecLinks == InitLinks /\ [][NextLinks]_vars

(***************************************************************************)
(* SpecFinanceBook: the finance books the server proposes for the item.    *)
(* The proposed rows carry no expected value, so that a change of the      *)
(* gross amount asks for no depreciation rate.                             *)
(***************************************************************************)
ItemBook == [BlankBook EXCEPT !.total_number_of_depreciations = 5,
                              !.frequency_of_depreciation = 12]

\* What get_item_details may answer: nothing, or a list of rows.
ItemDetails ==
    {[set |-> FALSE, books |-> <<>>],
     [set |-> TRUE, books |-> <<>>],
     [set |-> TRUE, books |-> <<ItemBook>>],
     [set |-> TRUE, books |-> <<ItemBook, [ItemBook EXCEPT !.depreciation_method = "Manual"]>>]}

InitFinanceBook ==
    /\ \E calc \in BOOLEAN :
          doc = [NewAsset EXCEPT !.item_code = "ITEM-A",
                                 !.gross_purchase_amount = 300,
                                 !.is_existing_asset = TRUE,
                                 !.calculate_depreciation = calc,
                                 !.finance_books = IF calc THEN <<ItemBook>> ELSE <<>>]
    /\ df = NewDf
    /\ flags = NewFlags
    /\ queue = <<Event("Asset", "refresh", 0)>>
    /\ calls = <<>>
    /\ msgs = {}
    /\ buttons = {}
    /\ page = NewPage
    /\ last = NoTask
    /\ ran = NoRun
    /\ edits = 0

EditCalculateDepreciation == \E v \in BOOLEAN : UserEdits("calculate_depreciation", v)
GrossAmountsOrNone == {0, 100, 300}

EditGrossOrNone == \E v \in GrossAmountsOrNone : UserEdits("gross_purchase_amount", v)

RunCalculateDepreciation == Runs("Asset", "calculate_depreciation", calculate_depreciation)
RunSetFinanceBook == Runs("Asset", "set_finance_book", set_finance_book)

ItemDetailsReturn == Returns("get_item_details", ItemDetails, set_finance_book_callback)

NextFinanceBook ==
    \/ EditItemCode
    \/ EditCalculateDepreciation
    \/ EditGrossOrNone
    \/ EditMethod
    \/ RunMethod
    \/ RunRefresh
    \/ RunIsExistingAsset
    \/ RunToggleReferenceDoc
    \/ RunItemCode
    \/ RunCalculateDepreciation
    \/ RunSetFinanceBook
    \/ RunGross
    \/ ItemDetailsReturn

SpecFinanceBook == InitFinanceBook /\ [][NextFinanceBook]_vars

(***************************************************************************)
(* SpecSchedule: editing the depreciation schedule of an asset             *)
(***************************************************************************)
ManualBook == [FilledBook EXCEPT !.depreciation_method = "Manual"]

ScheduleRow(finance_book_id, schedule_date, depreciation_amount) ==
    [finance_book_id |-> finance_book_id, schedule_date |-> schedule_date,
     depreciation_amount |-> depreciation_amount,
     accumulated_depreciation_amount |-> 0, journal_entry |-> ""]

\* The sum of depreciation_amount over the rows 1..i of finance book id.
RECURSIVE SumUpTo(_, _, _)
SumUpTo(schedules, id, i) ==
    IF i = 0 THEN 0
    ELSE SumUpTo(schedules, id, i - 1)
           + (IF schedules[i].finance_book_id = id
              THEN schedules[i].depreciation_amount ELSE 0)

\* The schedule as the server has calculated it: every row carries the opening
\* depreciation plus its finance book's amounts so far.
Accumulated(schedules, opening) ==
    [i \in DOMAIN schedules |->
        [schedules[i] EXCEPT !.accumulated_depreciation_amount =
            opening + SumUpTo(schedules, schedules[i].finance_book_id, i)]]

Amounts == {0, 10, 30}
OpeningAmounts == {0, 20}
ScheduleBooks == {<<ManualBook>>, <<FilledBook, ManualBook>>, <<ManualBook, ManualBook>>}

InitSchedule ==
    /\ \E books \in ScheduleBooks, opening \in OpeningAmounts,
          ids \in [1..3 -> 1..2] :
          /\ \A i \in 1..3 : ids[i] \in DOMAIN books
          /\ doc = [NewAsset EXCEPT
                      !.item_code = "ITEM-A",
                      !.calculate_depreciation = TRUE,
                      !.gross_purchase_amount = 300,
                      !.opening_accumulated_depreciation = opening,
                      !.finance_books = books,
                      !.schedules = Accumulated(
                          [i \in 1..3 |-> ScheduleRow(ids[i], 612 + i, 10)], opening)]
    /\ df = NewDf
    /\ flags = NewFlags
    /\ queue = <<>>
    /\ calls = <<>>
    /\ msgs = {}
    /\ buttons = {}
    /\ page = NewPage
    /\ last = NoTask
    /\ ran = NoRun
    /\ edits = 0

\* The user changes depreciation_amount of schedule row cdn.
EditDepreciationAmount ==
    \E cdn \in DOMAIN doc.schedules, v \in Amounts :
        /\ Idle
        /\ edits < MaxEdits
        /\ doc.docstatus = 0
        /\ doc.schedules[cdn].depreciation_amount # v
        /\ Install(schedule_set_value(Sys, cdn, "depreciation_amount", v))
        /\ last' = EditTask("depreciation_amount", cdn, v)
        /\ ran' = NoRun
        /\ edits' = edits + 1

RunDepreciationAmount ==
    Runs("Depreciation Schedule", "depreciation_amount", DS_depreciation_amount)

NextSchedule ==
    \/ EditDepreciationAmount
    \/ RunDepreciationAmount

SpecSchedule == InitSchedule /\ [][NextSchedule]_vars

(***************************************************************************)
(* SpecRefresh: the buttons of the Asset form.  The form opens on an asset *)
(* in any state and refreshes; the user may scrap or restore it.            *)
(***************************************************************************)
\* The states an asset document can be in: docstatus with status, and the
\* disposal date of a scrapped or sold asset.
AssetStatuses ==
    {"Draft", "Submitted", "Partially Depreciated", "Fully Depreciated", "Scrapped",
     "Sold", "Cancelled"}

AssetStates ==
    {[docstatus |-> IF st = "Draft" THEN 0 ELSE IF st = "Cancelled" THEN 2 ELSE 1,
      status |-> st,
      disposal_date |-> IF st \in {"Scrapped", "Sold"} THEN 630 ELSE 0]
        : st \in AssetStatuses}

DepreciatedAsset ==
    [SubmittedAsset EXCEPT
       !.gross_purchase_amount = 300,
       !.calculate_depreciation = TRUE,
       !.finance_books = <<[FilledBook EXCEPT !.depreciation_start_date = 622]>>,
       !.schedules = <<[ScheduleRow(1, 622, 50) EXCEPT
                          !.accumulated_depreciation_amount = 50,
                          !.journal_entry = "JV-1"],
                       [ScheduleRow(1, 634, 50) EXCEPT
                          !.accumulated_depreciation_amount = 100]>>]

\* An asset depreciated in two finance books.
TwoBookAsset ==
    [DepreciatedAsset EXCEPT
       !.finance_books = <<[FilledBook EXCEPT !.depreciation_start_date = 622],
                           [FilledBook EXCEPT !.depreciation_start_date = 622]>>,
       !.schedules = <<[ScheduleRow(1, 622, 50) EXCEPT
                          !.accumulated_depreciation_amount = 50,
                          !.journal_entry = "JV-1"],
                       [ScheduleRow(2, 622, 50) EXCEPT
                          !.accumulated_depreciation_amount = 50]>>]

\* The assets the form is opened on, in any of the states above.
RefreshDocs ==
    {SubmittedAsset,
     [SubmittedAsset EXCEPT !.maintenance_required = TRUE,
                            !.is_existing_asset = TRUE,
                            !.opening_accumulated_depreciation = 20,
                            !.depr_entry_posting_status = "Failed"],
     DepreciatedAsset,
     [DepreciatedAsset EXCEPT !.maintenance_required = TRUE,
                              !.opening_accumulated_depreciation = 20,
                              !.depr_entry_posting_status = "Failed"],
     TwoBookAsset}

InitRefresh ==
    /\ \E base \in RefreshDocs, st \in AssetStates :
          doc = [base EXCEPT !.docstatus = st.docstatus,
                             !.status = st.status,
                             !.disposal_date = st.disposal_date]
    /\ df = NewDf
    /\ flags = NewFlags
    /\ queue = <<Event("Asset", "refresh", 0)>>
    /\ calls = <<>>
    /\ msgs = {}
    /\ buttons = {}
    /\ page = NewPage
    /\ last = NoTask
    /\ ran = NoRun
    /\ edits = 0

\* The user clicks a custom button: its function runs.
Clicks(label, OnClick(_)) ==
    /\ Idle
    /\ edits < MaxEdits
    /\ label \in buttons
    /\ page.confirm = ""
    /\ Install(OnClick(Sys))
    /\ last' = EditTask(label, 0, 0)
    /\ ran' = NoRun
    /\ edits' = edits + 1

ClickScrapAsset == Clicks("Scrap Asset", scrap_asset)
ClickRestoreAsset == Clicks("Restore Asset", restore_asset)

ConfirmYes ==
    /\ page.confirm # ""
    /\ Install(confirm_yes(Sys))
    /\ UNCHANGED <<last, ran, edits>>

ConfirmNo ==
    /\ page.confirm # ""
    /\ page' = [page EXCEPT !.confirm = ""]
    /\ UNCHANGED <<doc, df, flags, queue, calls, msgs, buttons, last, ran, edits>>

ScrapReturns == Returns("scrap_asset", AssetStates, reload_doc)
RestoreReturns == Returns("restore_asset", AssetStates, reload_doc)
RunPostingFailureAlert ==
    Runs("Asset", "set_depr_posting_failure_alert", set_depr_posting_failure_alert)

NextRefresh ==
    \/ ClickScrapAsset
    \/ ClickRestoreAsset
    \/ ConfirmYes
    \/ ConfirmNo
    \/ RunRefresh
    \/ RunIsExistingAsset
    \/ RunToggleReferenceDoc
    \/ RunSetupChart
    \/ RunPostingFailureAlert
    \/ ScrapReturns
    \/ RestoreReturns
    \/ ManualEntriesReturn

SpecRefresh == InitRefresh /\ [][NextRefresh]_vars

(***************************************************************************)
(* SpecEntry: booking the depreciation of a submitted asset row by row.    *)
(* The server books rows that are not booked yet and returns the asset.    *)
(***************************************************************************)
UnbookedAsset ==
    [DepreciatedAsset EXCEPT !.schedules[1].journal_entry = ""]

EntryDocs == {DepreciatedAsset, UnbookedAsset}
EntryStatuses == {"Submitted", "Partially Depreciated"}

InitEntry ==
    /\ \E base \in EntryDocs, st \in EntryStatuses :
          doc = [base EXCEPT !.status = st]
    /\ df = NewDf
    /\ flags = NewFlags
    /\ queue = <<Event("Asset", "refresh", 0)>>
    /\ calls = <<>>
    /\ msgs = {}
    /\ buttons = {}
    /\ page = NewPage
    /\ last = NoTask
    /\ ran = NoRun
    /\ edits = 0

\* The user presses the make_depreciation_entry button of schedule row cdn.
PressMakeDepreciationEntry ==
    \E cdn \in DOMAIN doc.schedules :
        /\ Idle
        /\ edits < MaxEdits
        /\ Install(DS_make_depreciation_entry(Sys, cdn))
        /\ last' = EditTask("make_depreciation_entry", cdn, 0)
        /\ ran' = NoRun
        /\ edits' = edits + 1

JournalEntries == {"", "JV-1", "JV-2"}

\* The server's copy of the journal entries of the rows d.
ServerEntries(d) ==
    {je \in [DOMAIN d -> JournalEntries] :
        \A i \in DOMAIN d : d[i].journal_entry # "" => je[i] = d[i].journal_entry}

\* What make_depreciation_entry may answer for the rows d: failure, or the asset
\* with the rows the server has booked so far.
EntryAnswers(d) == {[ok |-> b, message |-> je] : b \in BOOLEAN, je \in ServerEntries(d)}

MakeDepreciationEntryReturns ==
    Returns("make_depreciation_entry", EntryAnswers(doc.schedules),
            make_depreciation_entry_done)

NextEntry ==
    \/ PressMakeDepreciationEntry
    \/ MakeDepreciationEntryReturns
    \/ RunRefresh
    \/ RunIsExistingAsset
    \/ RunToggleReferenceDoc
    \/ RunSetupChart

SpecEntry == InitEntry /\ [][NextEntry]_vars

(***************************************************************************)
(* SpecOrder: the status of a Sales Order.  The form opens on an order in  *)
(* any state and refreshes; the user holds, closes, resumes and reopens.   *)
(***************************************************************************)
OrderItem(delivered_by_supplier, qty, delivered_qty) ==
    [delivered_by_supplier |-> delivered_by_supplier, qty |-> qty,
     delivered_qty |-> delivered_qty]

\* An item row with the fields the purchase order, the delivery note and the
\* delivery dates read.
OrderRow(name, stock_qty, ordered_qty, conversion_factor, supplier, delivery_date) ==
    [name |-> name, item_code |-> "ITEM-A", delivered_by_supplier |-> 0,
     qty |-> stock_qty, delivered_qty |-> 0,
     stock_qty |-> stock_qty, ordered_qty |-> ordered_qty,
     conversion_factor |-> conversion_factor, supplier |-> supplier,
     delivery_date |-> delivery_date]

SalesOrder ==
    [docstatus |-> 1, status |-> "To Deliver and Bill",
     per_delivered |-> 0, per_billed |-> 0, per_picked |-> 0,
     order_type |-> "Sales", is_internal_customer |-> FALSE,
     skip_delivery_note |-> FALSE, auto_repeat |-> "",
     inter_company_order_reference |-> "",
     company |-> "Acme", represents_company |-> "",
     delivery_date |-> 0, packed_items |-> <<>>,
     items |-> <<OrderItem(0, 5, 2), OrderItem(1, 3, 0)>>]

InternalOrder ==
    [SalesOrder EXCEPT !.order_type = "Maintenance", !.is_internal_customer = TRUE,
                       !.represents_company = "Acme", !.skip_delivery_note = TRUE,
                       !.auto_repeat = "AR-1"]

\* The states an order can be in.
OrderStatuses ==
    {"Draft", "To Deliver and Bill", "Completed", "On Hold", "Closed", "Cancelled"}

OrderState(st) ==
    [docstatus |-> IF st = "Draft" THEN 0 ELSE IF st = "Cancelled" THEN 2 ELSE 1,
     status |-> st]

OrderStates == {OrderState(st) : st \in OrderStatuses}

\* What an update_status request may end with: a failure, or success with the
\* server's copy of the order in one of the states above.
StatusAnswers ==
    {[ok |-> b, state |-> OrderState(st)] : b \in BOOLEAN, st \in OrderStatuses}

\* 99.9999995 percent is below 100 and rounds to 100.
OrderPercentages == {0, Hundred - 5, Hundred}

OrderPage ==
    [hold_dialog |-> 0, dialogs |-> 0, perm_submit |-> TRUE,
     over_billing_allowance |-> 0, delivery_date_reqd |-> FALSE,
     primary_group |-> "", po_dialog |-> NoPoDialog, route |-> "",
     selected |-> {}, dn_dialog |-> NoDnDialog]

OrderDocs == {SalesOrder, InternalOrder}

InitOrder ==
    /\ \E base \in OrderDocs, st \in OrderStates,
          pd \in OrderPercentages, pb \in OrderPercentages :
          doc = [base EXCEPT !.docstatus = st.docstatus, !.status = st.status,
                             !.per_delivered = pd, !.per_billed = pb]
    /\ \E perm \in BOOLEAN : page = [OrderPage EXCEPT !.perm_submit = perm]
    /\ df = NewDf
    /\ flags = [is_saving |-> FALSE]
    /\ queue = <<Event("Sales Order", "refresh", 0)>>
    /\ calls = <<>>
    /\ msgs = {}
    /\ buttons = {}
    /\ last = NoTask
    /\ ran = NoRun
    /\ edits = 0

\* The user clicks a Status button of the order; the dialog is modal.
ClicksStatus(label, OnClick(_)) ==
    /\ Idle
    /\ edits < MaxEdits
    /\ [group |-> "Status", label |-> label] \in buttons
    /\ page.hold_dialog = 0
    /\ Install(OnClick(Sys))
    /\ last' = EditTask(label, 0, 0)
    /\ ran' = NoRun
    /\ edits' = edits + 1

ClickHold == ClicksStatus("Hold", hold_sales_order)
ClickClose == ClicksStatus("Close", close_sales_order)
ClickResume == ClicksStatus("Resume", resume_sales_order)
ClickReopen == ClicksStatus("Re-open", reopen_sales_order)

HoldReasons == {"", "customer asked"}

\* The user presses the primary button of the hold dialog.
PressHoldPrimary ==
    \E reason_for_hold \in HoldReasons :
        /\ Idle
        /\ edits < MaxEdits
        /\ page.hold_dialog # 0
        /\ Install(hold_primary_action(Sys, reason_for_hold))
        /\ last' = EditTask("reason_for_hold", page.hold_dialog, reason_for_hold)
        /\ ran' = NoRun
        /\ edits' = edits + 1

\* The user closes the hold dialog.
CloseHoldDialog ==
    /\ Idle
    /\ page.hold_dialog # 0
    /\ page' = [page EXCEPT !.hold_dialog = 0]
    /\ UNCHANGED <<doc, df, flags, queue, calls, msgs, buttons, last, ran, edits>>

RunOrderRefresh == Runs("Sales Order", "refresh", order_refresh)

CommentAnswers == {"ok", "exc", "error"}

AddCommentReturns == Returns("add_comment", CommentAnswers, add_comment_done)

UpdateStatusReturns == Returns("update_status", StatusAnswers, update_status_done)

NextOrder ==
    \/ ClickHold
    \/ ClickClose
    \/ ClickResume
    \/ ClickReopen
    \/ PressHoldPrimary
    \/ CloseHoldDialog
    \/ RunOrderRefresh
    \/ AddCommentReturns
    \/ UpdateStatusReturns

SpecOrder == InitOrder /\ [][NextOrder]_vars

(***************************************************************************)
(* SpecStartDate: the user enters the date of the first depreciation of    *)
(* finance-book rows and the date the asset is available for use.          *)
(***************************************************************************)
Dates == {0, 610, 611}

InitStartDate ==
    /\ \E date \in Dates :
          doc = [NewAsset EXCEPT !.available_for_use_date = date,
                                 !.finance_books = <<FilledBook, FilledBook>>]
    /\ df = NewDf
    /\ flags = NewFlags
    /\ queue = <<>>
    /\ calls = <<>>
    /\ msgs = {}
    /\ buttons = {}
    /\ page = NewPage
    /\ last = NoTask
    /\ ran = NoRun
    /\ edits = 0

EditStartDate ==
    \E cdn \in 1..2, date \in Dates : UserEditsBook(cdn, "depreciation_start_date", date)

EditAvailableForUseDate == \E date \in Dates : UserEdits("available_for_use_date", date)

RunStartDate ==
    Runs("Asset Finance Book", "depreciation_start_date", AFB_depreciation_start_date)

NextStartDate ==
    \/ EditStartDate
    \/ EditAvailableForUseDate
    \/ RunStartDate
    \/ DismissMessages

SpecStartDate == InitStartDate /\ [][NextStartDate]_vars

(***************************************************************************)
(* SpecPurchaseOrder: the user creates purchase orders from a submitted    *)
(* Sales Order.  The dialog is modal and the request freezes the page.     *)
(***************************************************************************)
PackedItem(parent_detail_docname, ordered_qty) ==
    [parent_detail_docname |-> parent_detail_docname, ordered_qty |-> ordered_qty]

OrderedOrder ==
    [SalesOrder EXCEPT !.items = <<OrderRow("row1", 5, 5, 1, "", 0),
                                   OrderRow("row2", 3, 4, 1, "Supplier", 0)>>]

PendingOrder ==
    [SalesOrder EXCEPT !.items = <<OrderRow("row1", 5, 2, 1, "Supplier", 0),
                                   OrderRow("row2", 4, 0, 2, "", 0),
                                   OrderRow("row3", 3, 3, 1, "Supplier", 0)>>]

PackedOrder ==
    [SalesOrder EXCEPT !.items = <<OrderRow("row1", 4, 0, 1, "", 0)>>,
                       !.packed_items = <<PackedItem("row1", 4), PackedItem("row1", 4)>>]

PurchaseOrderDocs == {OrderedOrder, PendingOrder, PackedOrder}

InitPurchaseOrder ==
    /\ doc \in PurchaseOrderDocs
    /\ page = OrderPage
    /\ df = NewDf
    /\ flags = [is_saving |-> FALSE]
    /\ queue = <<Event("Sales Order", "refresh", 0)>>
    /\ calls = <<>>
    /\ msgs = {}
    /\ buttons = {}
    /\ last = NoTask
    /\ ran = NoRun
    /\ edits = 0

\* The user can act on the form: nothing is running, no request freezes the
\* page and the form is still the page shown.
FormIsFree == Idle /\ calls = <<>> /\ page.route = ""

\* The user clicks a button of the Create group.
ClicksCreate(label, OnClick(_)) ==
    /\ FormIsFree
    /\ edits < MaxEdits
    /\ [group |-> "Create", label |-> label] \in buttons
    /\ ~page.po_dialog.open
    /\ Install(OnClick(Sys))
    /\ last' = EditTask(label, 0, 0)
    /\ ran' = NoRun
    /\ edits' = edits + 1

ClickPurchaseOrder == ClicksCreate("Purchase Order", make_purchase_order)

\* The user checks or unchecks 'Against Default Supplier': its onchange runs.
ToggleAgainstDefaultSupplier ==
    /\ FormIsFree
    /\ page.po_dialog.open
    /\ Install(set_po_items_data(
            [Sys EXCEPT !.page.po_dialog.against_default_supplier = ~@]))
    /\ UNCHANGED <<last, ran, edits>>

\* The user selects or deselects a row of the dialog's table.
TogglePoRow ==
    /\ FormIsFree
    /\ page.po_dialog.open
    /\ \E i \in DOMAIN page.po_dialog.items_for_po :
          page' = [page EXCEPT !.po_dialog.items_for_po[i].checked = ~@]
    /\ UNCHANGED <<doc, df, flags, queue, calls, msgs, buttons, last, ran, edits>>

\* The user presses 'Create Purchase Order'.
PressCreatePurchaseOrder ==
    /\ FormIsFree
    /\ edits < MaxEdits
    /\ page.po_dialog.open
    /\ Install(po_primary_action(Sys))
    /\ last' = EditTask("Create Purchase Order", 0, 0)
    /\ ran' = NoRun
    /\ edits' = edits + 1

\* The user closes the dialog.
ClosePoDialog ==
    /\ FormIsFree
    /\ page.po_dialog.open
    /\ page' = [page EXCEPT !.po_dialog.open = FALSE]
    /\ UNCHANGED <<doc, df, flags, queue, calls, msgs, buttons, last, ran, edits>>

PurchaseOrderReturns == Returns("make_purchase_order", BOOLEAN, po_callback)

DefaultSupplierReturns ==
    Returns("make_purchase_order_for_default_supplier", BOOLEAN, po_callback)

NextPurchaseOrder ==
    \/ RunOrderRefresh
    \/ ClickPurchaseOrder
    \/ ToggleAgainstDefaultSupplier
    \/ TogglePoRow
    \/ PressCreatePurchaseOrder
    \/ ClosePoDialog
    \/ PurchaseOrderReturns
    \/ DefaultSupplierReturns
    \/ DismissMessages

SpecPurchaseOrder == InitPurchaseOrder /\ [][NextPurchaseOrder]_vars

(***************************************************************************)
(* SpecDeliveryNote: the user creates a delivery note from a submitted     *)
(* Sales Order, whose item rows all have a delivery date.                  *)
(***************************************************************************)
OneDateOrder ==
    [SalesOrder EXCEPT !.delivery_date = 610,
                       !.items = <<OrderRow("row1", 5, 0, 1, "", 610),
                                   OrderRow("row2", 3, 0, 1, "", 610)>>]

TwoDatesOrder ==
    [SalesOrder EXCEPT !.delivery_date = 610,
                       !.items = <<OrderRow("row1", 5, 0, 1, "", 610),
                                   OrderRow("row2", 3, 0, 1, "", 620),
                                   OrderRow("row3", 2, 0, 1, "", 610)>>]

DeliveryNoteDocs == {OneDateOrder, TwoDatesOrder}

InitDeliveryNote ==
    /\ doc \in DeliveryNoteDocs
    /\ page = OrderPage
    /\ df = NewDf
    /\ flags = [is_saving |-> FALSE]
    /\ queue = <<Event("Sales Order", "refresh", 0)>>
    /\ calls = <<>>
    /\ msgs = {}
    /\ buttons = {}
    /\ last = NoTask
    /\ ran = NoRun
    /\ edits = 0

\* The user clicks 'Delivery Note' of the Create group.
ClickDeliveryNote ==
    /\ FormIsFree
    /\ edits < MaxEdits
    /\ [group |-> "Create", label |-> "Delivery Note"] \in buttons
    /\ ~page.dn_dialog.open
    /\ Install(make_delivery_note_based_on_delivery_date(Sys))
    /\ last' = EditTask("Delivery Note", 0, 0)
    /\ ran' = NoRun
    /\ edits' = edits + 1

\* The user selects or deselects an item row of the grid.
ToggleItemRow ==
    /\ FormIsFree
    /\ ~page.dn_dialog.open
    /\ \E i \in DOMAIN doc.items :
          page' = [page EXCEPT !.selected =
                      IF doc.items[i].name \in @ THEN @ \ {doc.items[i].name}
                      ELSE @ \cup {doc.items[i].name}]
    /\ UNCHANGED <<doc, df, flags, queue, calls, msgs, buttons, last, ran, edits>>

\* The user checks or unchecks a date of the dialog.
ToggleDate ==
    /\ FormIsFree
    /\ page.dn_dialog.open
    /\ \E k \in DOMAIN page.dn_dialog.dates :
          page' = [page EXCEPT !.dn_dialog.checked =
                      IF page.dn_dialog.dates[k] \in @ THEN @ \ {page.dn_dialog.dates[k]}
                      ELSE @ \cup {page.dn_dialog.dates[k]}]
    /\ UNCHANGED <<doc, df, flags, queue, calls, msgs, buttons, last, ran, edits>>

\* The user presses 'Select'.
PressSelect ==
    /\ FormIsFree
    /\ edits < MaxEdits
    /\ page.dn_dialog.open
    /\ Install(dn_primary_action(Sys))
    /\ last' = EditTask("Select", 0, 0)
    /\ ran' = NoRun
    /\ edits' = edits + 1

\* The user closes the dialog.
CloseDnDialog ==
    /\ FormIsFree
    /\ page.dn_dialog.open
    /\ page' = [page EXCEPT !.dn_dialog.open = FALSE]
    /\ UNCHANGED <<doc, df, flags, queue, calls, msgs, buttons, last, ran, edits>>

DeliveryNoteReturns == Returns("make_delivery_note", BOOLEAN, dn_callback)

NextDeliveryNote ==
    \/ RunOrderRefresh
    \/ ClickDeliveryNote
    \/ ToggleItemRow
    \/ ToggleDate
    \/ PressSelect
    \/ CloseDnDialog
    \/ DeliveryNoteReturns

SpecDeliveryNote == InitDeliveryNote /\ [][NextDeliveryNote]_vars

(***************************************************************************)
(* SpecDeliveryDate: the user edits the delivery dates and item codes of a *)
(* draft Sales Order.                                                      *)
(***************************************************************************)
DraftOrder == [SalesOrder EXCEPT !.docstatus = 0, !.status = "Draft"]

OrderItemCodes == {"ITEM-A", "ITEM-B"}

InitDeliveryDate ==
    /\ \E date \in Dates, dates \in [1..2 -> Dates] :
          doc = [DraftOrder EXCEPT
                    !.delivery_date = date,
                    !.items = <<OrderRow("row1", 5, 0, 1, "", dates[1]),
                                OrderRow("row2", 3, 0, 1, "", dates[2])>>]
    /\ page = OrderPage
    /\ df = NewDf
    /\ flags = [is_saving |-> FALSE]
    /\ queue = <<>>
    /\ calls = <<>>
    /\ msgs = {}
    /\ buttons = {}
    /\ last = NoTask
    /\ ran = NoRun
    /\ edits = 0

\* The user changes the delivery date of the order.
EditDeliveryDate ==
    \E v \in Dates :
        /\ Idle
        /\ edits < MaxEdits
        /\ doc.delivery_date # v
        /\ Install(order_set_value(Sys, "delivery_date", v))
        /\ last' = EditTask("delivery_date", 0, v)
        /\ ran' = NoRun
        /\ edits' = edits + 1

\* The user changes the item of row cdn.
EditRowItemCode ==
    \E cdn \in DOMAIN doc.items, v \in OrderItemCodes :
        /\ Idle
        /\ edits < MaxEdits
        /\ doc.items[cdn].item_code # v
        /\ Install(item_set_value(Sys, cdn, "item_code", v))
        /\ last' = EditTask("item_code", cdn, v)
        /\ ran' = NoRun
        /\ edits' = edits + 1

\* The user changes the delivery date of row cdn.
EditRowDeliveryDate ==
    \E cdn \in DOMAIN doc.items, v \in Dates :
        /\ Idle
        /\ edits < MaxEdits
        /\ doc.items[cdn].delivery_date # v
        /\ Install(item_set_value(Sys, cdn, "delivery_date", v))
        /\ last' = EditTask("delivery_date", cdn, v)
        /\ ran' = NoRun
        /\ edits' = edits + 1

RunOrderDeliveryDate == Runs("Sales Order", "delivery_date", SO_delivery_date)
RunRowItemCode == Runs("Sales Order Item", "item_code", SOI_item_code)
RunRowDeliveryDate == Runs("Sales Order Item", "delivery_date", SOI_delivery_date)

NextDeliveryDate ==
    \/ EditDeliveryDate
    \/ EditRowItemCode
    \/ EditRowDeliveryDate
    \/ RunOrderDeliveryDate
    \/ RunRowItemCode
    \/ RunRowDeliveryDate

SpecDeliveryDate == InitDeliveryDate /\ [][NextDeliveryDate]_vars

(***************************************************************************)
(* SpecTaxJar: the TaxJar Settings form.  The requiredness the form opens  *)
(* with is that of the doctype's metadata, which is not part of these      *)
(* scripts: any is possible.                                               *)
(***************************************************************************)
InitTaxJar ==
    /\ \E b \in BOOLEAN : doc = [is_sandbox |-> b, docstatus |-> 0]
    /\ \E a \in BOOLEAN, b \in BOOLEAN :
          df = [reqd |-> [api_key |-> a, sandbox_api_key |-> b]]
    /\ flags = NewFlags
    /\ queue = <<Event("TaxJar Settings", "refresh", 0)>>
    /\ calls = <<>>
    /\ msgs = {}
    /\ buttons = {}
    /\ page = NewPage
    /\ last = NoTask
    /\ ran = NoRun
    /\ edits = 0

\* The user checks or unchecks is_sandbox.  last.cdn counts the toggles in a
\* row, last.arg keeps the requiredness at this toggle and at the one before.
ToggleIsSandbox ==
    /\ Idle
    /\ edits < MaxEdits
    /\ doc' = [doc EXCEPT !.is_sandbox = ~@]
    /\ queue' = Append(queue, Event("TaxJar Settings", "is_sandbox", 0))
    /\ last' = [task |-> "edit", field |-> "is_sandbox",
                cdn |-> IF last.field = "is_sandbox" THEN last.cdn + 1 ELSE 1,
                value |-> ~doc.is_sandbox,
                arg |-> [now |-> df.reqd,
                         before |-> IF last.field = "is_sandbox"
                                    THEN last.arg.now ELSE df.reqd]]
    /\ ran' = NoRun
    /\ edits' = edits + 1
    /\ UNCHANGED <<df, flags, calls, msgs, buttons, page>>

RunTaxJarRefresh == Runs("TaxJar Settings", "refresh", TJ_refresh)
RunIsSandbox == Runs("TaxJar Settings", "is_sandbox", TJ_is_sandbox)
ClickUpdateNexusList == Clicks("Update Nexus List", update_nexus_list)
UpdateNexusListReturns == Returns("update_nexus_list", BOOLEAN, update_nexus_list_done)

NextTaxJar ==
    \/ ToggleIsSandbox
    \/ RunTaxJarRefresh
    \/ RunIsSandbox
    \/ ClickUpdateNexusList
    \/ UpdateNexusListReturns

SpecTaxJar == InitTaxJar /\ [][NextTaxJar]_vars

(***************************************************************************)
(* Claims about the finance books (SpecBooks)                              *)
(***************************************************************************)
\* This step is a run of the handler h of doctype dt.
HandlerRan(dt, h) == ran'.dt = dt /\ ran'.h = h /\ ran'.n = ran.n + 1

\* This step is the callback of a remote call of the given method.
Returned(method) ==
    /\ last'.task = "callback"
    /\ last'.field = method
    /\ calls' # calls
    /\ edits' = edits
    /\ ran' = NoRun

BookOfLast == doc.finance_books[last.cdn]

\* C2: a user edit of expected_value_after_useful_life or of
\* salvage_value_percentage recomputes the other field, and the recomputed
\* field's handler never writes back to the field the user edited: until the
\* next task, the edited field holds the value the user entered.
C2_EditedFieldKeepsUserValue ==
    (/\ last.task = "edit"
     /\ last.field \in {"expected_value_after_useful_life", "salvage_value_percentage"})
        => BookOfLast[last.field] = last.value

\* C3: after the get_depreciation_rate callback has written rate_of_depreciation,
\* the handlers it sets off leave every row's expected_value_after_useful_life
\* as it was, whichever row's callback resolves and in whatever order.
C3_CallbackRateKeepsExpectedValue ==
    [][(last.task = "callback" /\ last'.task = "callback")
          => \A i \in DOMAIN doc.finance_books :
                doc'.finance_books[i].expected_value_after_useful_life
                    = doc.finance_books[i].expected_value_after_useful_life]_vars

\* A callback has written a new rate on one row, that row's rate handler has
\* run, the row still has its expected value, and another row's request is
\* still in flight.
C3_Witness ==
    /\ last.task = "callback"
    /\ last.value # 0
    /\ Idle
    /\ ~flags.dont_change_rate
    /\ BookOfLast.rate_of_depreciation = last.value
    /\ BookOfLast.rate_of_depreciation # FilledBook.rate_of_depreciation
    /\ BookOfLast.expected_value_after_useful_life # 0
    /\ \E k \in DOMAIN calls : calls[k].cdn # last.cdn

\* C4: a user edit of rate_of_depreciation sets the row's
\* expected_value_after_useful_life to 0: when the handler of a rate the user
\* edited has run, the row's expected value is 0.
C4_RateEditResetsExpectedValue ==
    [][(/\ last.task = "edit"
        /\ last.field = "rate_of_depreciation"
        /\ HandlerRan("Asset Finance Book", "rate_of_depreciation"))
          => doc'.finance_books[last.cdn].expected_value_after_useful_life = 0]_vars

(***************************************************************************)
(* Claims about the item and purchase documents (SpecLinks)                *)
(***************************************************************************)
LinkFields == {"purchase_receipt", "purchase_invoice"}

\* C1: when the handler of purchase_receipt (resp. purchase_invoice) runs with
\* the link set and item_code empty, it empties that link and changes no other
\* field of the document, shows 'Please select Item Code first', and sends no
\* request.
C1_LinkWithoutItemIsReset ==
    [][\A h \in LinkFields :
          (HandlerRan("Asset", h) /\ doc.item_code = "" /\ doc[h] # "")
            => /\ doc' = [doc EXCEPT ![h] = ""]
               /\ "Please select Item Code first" \in msgs'
               /\ calls' = calls]_vars

\* The user has picked a purchase receipt on an asset without item, and the
\* handler has emptied the link and shown the message.
C1_Witness ==
    /\ last.task = "edit"
    /\ last.field = "purchase_receipt"
    /\ last.value # ""
    /\ ran.h = "purchase_receipt"
    /\ doc.item_code = ""
    /\ doc.purchase_receipt = ""
    /\ "Please select Item Code first" \in msgs
    /\ calls = <<>>

\* C10: after toggle_reference_doc has run on an asset that is neither existing
\* nor composite and not submitted with both links set: with a purchase receipt,
\* purchase_invoice is read-only and not required; else with a purchase
\* invoice, purchase_receipt is read-only and not required; else both links are
\* required and editable.  After it has run on an existing or composite asset,
\* neither link is required.
C10_ToggleReferenceDoc ==
    [][HandlerRan("Asset", "toggle_reference_doc") =>
          /\ (/\ ~doc.is_existing_asset
              /\ ~doc.is_composite_asset
              /\ ~(doc.purchase_receipt # "" /\ doc.purchase_invoice # "" /\ doc.docstatus = 1))
                => IF doc.purchase_receipt # ""
                   THEN df'.read_only.purchase_invoice /\ ~df'.reqd.purchase_invoice
                   ELSE IF doc.purchase_invoice # ""
                   THEN df'.read_only.purchase_receipt /\ ~df'.reqd.purchase_receipt
                   ELSE /\ df'.reqd.purchase_receipt /\ ~df'.read_only.purchase_receipt
                        /\ df'.reqd.purchase_invoice /\ ~df'.read_only.purchase_invoice
          /\ (doc.is_existing_asset \/ doc.is_composite_asset)
                => ~df'.reqd.purchase_receipt /\ ~df'.reqd.purchase_invoice]_vars

\* toggle_reference_doc has run on a draft with a purchase receipt that is
\* neither existing nor composite: the invoice is read-only and not required,
\* the receipt is still required.
C10_Witness ==
    /\ ran.h = "toggle_reference_doc"
    /\ doc.docstatus = 0
    /\ doc.purchase_receipt # ""
    /\ ~doc.is_existing_asset
    /\ ~doc.is_composite_asset
    /\ df.read_only.purchase_invoice
    /\ ~df.reqd.purchase_invoice
    /\ df.reqd.purchase_receipt

\* The line of the purchase document that a fetch of the document finds for
\* the asset's item: the first one with its item_code, 0 when there is none.
LineOf(name, code) ==
    LET found == {i \in DOMAIN PurchaseDocs[name].items :
                     PurchaseDocs[name].items[i].item_code = code}
    IN  IF found = {} THEN 0 ELSE CHOOSE i \in found : \A j \in found : i <= j

\* What C11 says of the step in which the fetched document arrives.
FetchedDocSetsHeader ==
    (Returned("get_doc") /\ LineOf(last'.arg.name, doc.item_code) # 0)
      => LET purchase_doc == PurchaseDocs[last'.arg.name]
         IN  /\ doc'.company = purchase_doc.company
             /\ doc'.purchase_date = IF purchase_doc.bill_date # 0
                                     THEN purchase_doc.bill_date
                                     ELSE purchase_doc.posting_date
             /\ doc'.available_for_use_date =
                    IF ~doc.is_existing_asset /\ doc.available_for_use_date = 0
                    THEN doc'.purchase_date
                    ELSE doc.available_for_use_date

\* C11 as stated: when a purchase document with a line for the asset's item
\* arrives, company, purchase_date and available_for_use_date are set as
\* described, and when the item's is_grouped_asset arrives, asset_quantity is
\* the line's qty for a grouped asset and 1 otherwise, and gross_purchase_amount
\* and purchase_receipt_amount are both valuation_rate * asset_quantity.
C11_AmountsAreTheProduct ==
    [][/\ FetchedDocSetsHeader
       /\ Returned("get_value")
            => LET item == PurchaseDocs[last'.arg.name].items[last'.cdn]
                   asset_quantity == IF ItemIsGroupedAsset[item.item_code]
                                     THEN item.qty ELSE 1
               IN  /\ doc'.asset_quantity = asset_quantity
                   /\ doc'.gross_purchase_amount * RateUnit
                         = item.valuation_rate * asset_quantity
                   /\ doc'.purchase_receipt_amount = doc'.gross_purchase_amount]_vars

\* C11 amended: as above, but gross_purchase_amount and purchase_receipt_amount
\* are both valuation_rate * asset_quantity rounded to the precision of
\* gross_purchase_amount.
C11_AmountsAreTheRoundedProduct ==
    [][/\ FetchedDocSetsHeader
       /\ Returned("get_value")
            => LET item == PurchaseDocs[last'.arg.name].items[last'.cdn]
                   asset_quantity == IF ItemIsGroupedAsset[item.item_code]
                                     THEN item.qty ELSE 1
               IN  /\ doc'.asset_quantity = asset_quantity
                   /\ doc'.gross_purchase_amount
                         = flt_div(item.valuation_rate * asset_quantity, RateUnit)
                   /\ doc'.purchase_receipt_amount = doc'.gross_purchase_amount]_vars

\* The second receipt fetched for a grouped item has arrived with its item's
\* answer: the quantity is that of its line, both amounts are 4 * 33.3 rounded,
\* the purchase date is the receipt's and the available-for-use date still that
\* of the first receipt.
C11_Witness ==
    /\ last.task = "callback"
    /\ last.field = "get_value"
    /\ last.arg.name = "PR-2"
    /\ Idle
    /\ doc.item_code = "ITEM-G"
    /\ doc.company = "Bolt"
    /\ doc.asset_quantity = 4
    /\ doc.gross_purchase_amount = 133
    /\ doc.purchase_receipt_amount = 133
    /\ doc.purchase_date = 611
    /\ doc.available_for_use_date = 610

(***************************************************************************)
(* Claims about the proposed finance books (SpecFinanceBook)               *)
(***************************************************************************)
\* C5: whenever a get_item_details request resolves with a result, finance_books
\* becomes that result, whichever of the requests in flight it is and whatever
\* the form holds by then; so finance_books ends as the result of the callback
\* that resolves last.
C5_LastResolvedWins ==
    [][(Returned("get_item_details") /\ last'.value.set)
          => doc'.finance_books = last'.value.books]_vars

\* A request sent for another item than the form holds now has resolved with
\* rows, while a second request was in flight: the form holds its rows.
C5_Witness ==
    /\ last.task = "callback"
    /\ last.field = "get_item_details"
    /\ last.value.set
    /\ last.value.books # <<>>
    /\ doc.finance_books = last.value.books
    /\ last.arg.name # doc.item_code
    /\ calls # <<>>
    /\ Idle

FinanceBookHandlers == {"calculate_depreciation", "item_code"}

\* The number of get_item_details requests in flight.
ItemDetailsRequests(c) ==
    Cardinality({k \in DOMAIN c : c[k].method = "get_item_details"})

\* set_finance_book is among the handlers still to run.
FinanceBookPending(q) == \E k \in DOMAIN q : q[k].h = "set_finance_book"

\* item_code, calculate_depreciation and gross_purchase_amount are all set.
AllSetForFinanceBooks(d) ==
    d.item_code # "" /\ d.calculate_depreciation /\ d.gross_purchase_amount # 0

\* C14: after the calculate_depreciation handler has run, finance_books is
\* required iff calculate_depreciation is checked; the calculate_depreciation
\* and item_code handlers go on to set_finance_book when item_code,
\* calculate_depreciation and gross_purchase_amount are all set, and otherwise
\* empty finance_books and send nothing; and a get_item_details request is sent
\* only by set_finance_book, with all three set.
C14_FinanceBooksRequested ==
    [][/\ HandlerRan("Asset", "calculate_depreciation")
            => df'.reqd.finance_books = doc.calculate_depreciation
       /\ \A h \in FinanceBookHandlers :
             HandlerRan("Asset", h)
               => /\ calls' = calls
                  /\ IF AllSetForFinanceBooks(doc)
                     THEN FinanceBookPending(queue') /\ doc' = doc
                     ELSE doc' = [doc EXCEPT !.finance_books = <<>>]
                          /\ (FinanceBookPending(queue') => FinanceBookPending(queue))
       /\ ItemDetailsRequests(calls') > ItemDetailsRequests(calls)
            => /\ HandlerRan("Asset", "set_finance_book")
               /\ AllSetForFinanceBooks(doc)]_vars

\* The user has checked calculate_depreciation on an asset with item and
\* amount: finance_books is required and the request is in flight.
C14_Witness ==
    /\ last.task = "edit"
    /\ last.field = "calculate_depreciation"
    /\ last.value = TRUE
    /\ ran.h = "set_finance_book"
    /\ df.reqd.finance_books
    /\ AllSetForFinanceBooks(doc)
    /\ ItemDetailsRequests(calls) = 1

(***************************************************************************)
(* Claims about the depreciation schedule (SpecSchedule)                   *)
(***************************************************************************)
\* C9: when the handler of depreciation_amount runs for a schedule row whose
\* finance book uses the Manual method, every schedule row of that finance book
\* gets accumulated_depreciation_amount = opening_accumulated_depreciation plus
\* the depreciation_amount of itself and of the earlier rows of the same
\* finance book, and the rows of other finance books stay as they are; when the
\* method is not Manual, no row changes.
C9_AccumulatedDepreciation ==
    [][HandlerRan("Depreciation Schedule", "depreciation_amount") =>
          LET id == doc.schedules[ran'.cdn].finance_book_id
          IN  IF doc.finance_books[id].depreciation_method = "Manual"
              THEN \A i \in DOMAIN doc.schedules :
                      doc'.schedules[i] =
                          IF doc.schedules[i].finance_book_id = id
                          THEN [doc.schedules[i] EXCEPT
                                  !.accumulated_depreciation_amount =
                                      doc.opening_accumulated_depreciation
                                        + SumUpTo(doc.schedules, id, i)]
                          ELSE doc.schedules[i]
              ELSE doc'.schedules = doc.schedules]_vars

\* An amount of a Manual finance book with an opening depreciation was edited on
\* a schedule that mixes two finance books, and the rows after the edited one
\* carry the new running total.
C9_Witness ==
    /\ ran.h = "depreciation_amount"
    /\ last.task = "edit"
    /\ last.cdn = 1
    /\ last.value = 30
    /\ doc.opening_accumulated_depreciation # 0
    /\ doc.finance_books[doc.schedules[1].finance_book_id].depreciation_method = "Manual"
    /\ doc.schedules[2].finance_book_id # doc.schedules[1].finance_book_id
    /\ doc.schedules[3].finance_book_id = doc.schedules[1].finance_book_id
    /\ doc.schedules[3].accumulated_depreciation_amount
         = doc.opening_accumulated_depreciation + 30 + doc.schedules[3].depreciation_amount

(***************************************************************************)
(* Claims about the buttons of the Asset form (SpecRefresh)                *)
(***************************************************************************)
DisposalButtons == {"Transfer Asset", "Scrap Asset", "Sell Asset"}

ManageButtons ==
    {"Transfer Asset", "Scrap Asset", "Sell Asset", "Restore Asset",
     "Maintain Asset", "Repair Asset", "Split Asset", "Adjust Asset Value",
     "Create Depreciation Entry", "View General Ledger"}

\* C8: after refresh has run, Transfer Asset, Scrap Asset and Sell Asset are
\* offered iff docstatus is 1 and status is Submitted, Partially Depreciated or
\* Fully Depreciated; Restore Asset is offered iff docstatus is 1 and status is
\* Scrapped; Scrap Asset and Restore Asset are not offered together; a draft or
\* cancelled asset has none of the Manage buttons; a Fully Depreciated asset has
\* no Adjust Asset Value.
C8_RefreshButtons ==
    [][HandlerRan("Asset", "refresh") =>
          /\ \A b \in DisposalButtons :
                b \in buttons' <=>
                    /\ doc.docstatus = 1
                    /\ doc.status \in {"Submitted", "Partially Depreciated",
                                       "Fully Depreciated"}
          /\ "Restore Asset" \in buttons' <=>
                (doc.docstatus = 1 /\ doc.status = "Scrapped")
          /\ ~("Scrap Asset" \in buttons' /\ "Restore Asset" \in buttons')
          /\ doc.docstatus # 1 => buttons' \cap ManageButtons = {}
          /\ doc.status = "Fully Depreciated" => "Adjust Asset Value" \notin buttons']_vars

\* The user has scrapped a submitted asset, the form has reloaded the scrapped
\* document and refresh offers Restore Asset in place of Scrap Asset.
C8_Witness ==
    /\ last.task = "callback"
    /\ last.field = "scrap_asset"
    /\ ran.h = "refresh"
    /\ doc.docstatus = 1
    /\ doc.status = "Scrapped"
    /\ "Restore Asset" \in buttons
    /\ "Scrap Asset" \notin buttons
    /\ "Adjust Asset Value" \in buttons

(***************************************************************************)
(* Claims about the status of a Sales Order (SpecOrder)                    *)
(***************************************************************************)
\* The number of update_status requests for the given status in flight.
StatusRequests(c, status) ==
    Cardinality({k \in DOMAIN c : c[k].method = "update_status" /\ c[k].arg = status})

RequestedStatuses == {"On Hold", "Closed", "Draft"}
StatusLabels == {"Resume", "Re-open", "Hold", "Close"}
ExclusiveLabels == {"Resume", "Re-open", "Hold"}
RequestingLabels == {"Resume", "Re-open", "Close"}

Offered(b, label) == [group |-> "Status", label |-> label] \in b

\* C6: an update_status request for 'On Hold' is sent only in the step in which
\* an add_comment request completes without error; when add_comment fails, no
\* update_status request is sent, the order is unchanged and the dialog is as
\* open as it was.
C6_HoldAfterComment ==
    [][/\ StatusRequests(calls', "On Hold") > StatusRequests(calls, "On Hold")
            => Returned("add_comment") /\ last'.value = "ok"
       /\ (Returned("add_comment") /\ last'.value # "ok")
            => /\ \A st \in RequestedStatuses :
                     StatusRequests(calls', st) = StatusRequests(calls, st)
               /\ doc' = doc
               /\ page' = page]_vars

\* The comment of a hold was saved: the request for 'On Hold' is in flight, the
\* dialog is hidden and the order still has its status.
C6_Witness ==
    /\ last.task = "callback"
    /\ last.field = "add_comment"
    /\ last.value = "ok"
    /\ StatusRequests(calls, "On Hold") = 1
    /\ page.hold_dialog = 0
    /\ flags.is_saving
    /\ doc.status = "To Deliver and Bill"

\* C7: after the refresh of a Sales Order, a Status button is offered only on a
\* submitted order to a user with submit permission, and then Resume iff the
\* status is On Hold and Re-open iff it is Closed; Hold only when the status is
\* neither On Hold nor Closed; Close only when the status is not Closed and
\* per_delivered or per_billed is below 100.  A Closed order offers neither
\* Hold nor Close, and at most one of Resume, Re-open and Hold is offered.
\* Resume and Re-open request status Draft, Close requests Closed.
C7_StatusButtons ==
    [][/\ HandlerRan("Sales Order", "refresh") =>
             /\ (\E l \in StatusLabels : Offered(buttons', l))
                   => doc.docstatus = 1 /\ page.perm_submit
             /\ (doc.docstatus = 1 /\ page.perm_submit)
                   => /\ Offered(buttons', "Resume") <=> doc.status = "On Hold"
                      /\ Offered(buttons', "Re-open") <=> doc.status = "Closed"
             /\ Offered(buttons', "Hold") => doc.status \notin {"On Hold", "Closed"}
             /\ Offered(buttons', "Close")
                   => /\ doc.status # "Closed"
                      /\ (doc.per_delivered < Hundred \/ doc.per_billed < Hundred)
             /\ doc.status = "Closed"
                   => ~Offered(buttons', "Hold") /\ ~Offered(buttons', "Close")
             /\ Cardinality({l \in ExclusiveLabels : Offered(buttons', l)}) <= 1
       /\ \A l \in RequestingLabels :
             (edits' = edits + 1 /\ last'.field = l)
                => calls' = Append(calls, Call("update_status", 0,
                                               IF l = "Close" THEN "Closed" ELSE "Draft"))]_vars

\* An order on hold that is delivered and billed just below 100 percent was
\* refreshed for a user with submit permission: Resume and Close are offered,
\* Hold and Re-open are not.
C7_Witness ==
    /\ ran.h = "refresh"
    /\ doc.docstatus = 1
    /\ doc.status = "On Hold"
    /\ page.perm_submit
    /\ doc.per_delivered = Hundred - 5
    /\ doc.per_billed = Hundred - 5
    /\ Offered(buttons, "Resume")
    /\ Offered(buttons, "Close")
    /\ ~Offered(buttons, "Hold")
    /\ ~Offered(buttons, "Re-open")

(***************************************************************************)
(* Claims about the date of the first depreciation (SpecStartDate)         *)
(***************************************************************************)
\* C12: when the handler of depreciation_start_date runs for a row whose date
\* equals the asset's non-empty available_for_use_date, it shows 'Depreciation
\* Posting Date should not be equal to Available for Use Date.' and clears the
\* row's date; so after the handler the row does not have the asset's
\* non-empty available_for_use_date as its depreciation_start_date.
C12_StartDateIsCleared ==
    [][HandlerRan("Asset Finance Book", "depreciation_start_date") =>
          LET cdn == ran'.cdn
          IN  /\ (/\ doc.available_for_use_date # 0
                  /\ doc.finance_books[cdn].depreciation_start_date
                        = doc.available_for_use_date)
                    => /\ "Depreciation Posting Date should not be equal to Available for Use Date."
                            \in msgs'
                       /\ doc'.finance_books[cdn].depreciation_start_date = 0
              /\ doc'.available_for_use_date # 0
                    => doc'.finance_books[cdn].depreciation_start_date
                          # doc'.available_for_use_date]_vars

\* The user has entered the available-for-use date as the date of the first
\* depreciation of row 2: the handler has warned and cleared it.
C12_Witness ==
    /\ last.task = "edit"
    /\ last.field = "depreciation_start_date"
    /\ last.cdn = 2
    /\ last.value = doc.available_for_use_date
    /\ last.value # 0
    /\ ran.h = "depreciation_start_date"
    /\ doc.finance_books[2].depreciation_start_date = 0
    /\ "Depreciation Posting Date should not be equal to Available for Use Date." \in msgs

(***************************************************************************)
(* Claims about purchase orders from a Sales Order (SpecPurchaseOrder)     *)
(***************************************************************************)
PurchaseOrderMethods == {"make_purchase_order", "make_purchase_order_for_default_supplier"}

\* C13: when 'Purchase Order' is clicked on an order none of whose items has
\* stock_qty - ordered_qty > 0, 'Purchase Order already created for all Sales
\* Order items' is shown, no dialog opens and no request is sent; a
\* purchase-order request is sent only by the dialog's primary action with at
\* least one row selected, and it calls make_purchase_order_for_default_supplier
\* iff 'Against Default Supplier' is checked and make_purchase_order otherwise.
C13_PurchaseOrderRequests ==
    [][/\ (/\ edits' = edits + 1
           /\ last'.field = "Purchase Order"
           /\ \A i \in DOMAIN doc.items :
                  ~(doc.items[i].stock_qty - doc.items[i].ordered_qty > 0))
            => /\ "Purchase Order already created for all Sales Order items" \in msgs'
               /\ ~page'.po_dialog.open
               /\ calls' = calls
       /\ Len(calls') > Len(calls)
            => /\ edits' = edits + 1
               /\ last'.field = "Create Purchase Order"
               /\ page.po_dialog.open
               /\ \E i \in DOMAIN page.po_dialog.items_for_po :
                      page.po_dialog.items_for_po[i].checked
               /\ Len(calls') = Len(calls) + 1
               /\ calls'[Len(calls')].method =
                      IF page.po_dialog.against_default_supplier
                      THEN "make_purchase_order_for_default_supplier"
                      ELSE "make_purchase_order"
               /\ Len(calls'[Len(calls')].arg.selected_items) > 0]_vars

\* A request against the default supplier is in flight for the one row that has
\* a supplier, and the dialog is hidden.
C13_Witness ==
    /\ last.task = "edit"
    /\ last.field = "Create Purchase Order"
    /\ Len(calls) = 1
    /\ calls[1].method = "make_purchase_order_for_default_supplier"
    /\ calls[1].arg.selected_items = <<"row1">>
    /\ ~page.po_dialog.open

(***************************************************************************)
(* Claims about TaxJar Settings (SpecTaxJar)                               *)
(***************************************************************************)
\* C15: after every run of the is_sandbox handler sandbox_api_key is required
\* iff is_sandbox is checked and api_key is required iff it is not, so exactly
\* one of the two is required; and once the handler has run, two more toggles
\* of is_sandbox restore the requiredness of both keys.
C15_ExactlyOneKeyRequired ==
    [][HandlerRan("TaxJar Settings", "is_sandbox") =>
          /\ df'.reqd.sandbox_api_key = doc.is_sandbox
          /\ df'.reqd.api_key = ~doc.is_sandbox
          /\ df'.reqd.api_key # df'.reqd.sandbox_api_key
          /\ last.cdn >= 3 => df'.reqd = last.arg.before]_vars

\* is_sandbox was toggled three times from unchecked and its handler has run
\* each time: the sandbox key is required and the live key is not, as after
\* the first toggle.
C15_Witness ==
    /\ ran.h = "is_sandbox"
    /\ last.field = "is_sandbox"
    /\ last.cdn = 3
    /\ doc.is_sandbox
    /\ df.reqd.sandbox_api_key
    /\ ~df.reqd.api_key
    /\ df.reqd = last.arg.before

(***************************************************************************)
(* The value chart of an asset (SpecRefresh)                               *)
(***************************************************************************)
Disposed == {"Scrapped", "Sold"}

\* This step is setup_chart running through to render_graph without a request.
ChartFromSchedule ==
    /\ HandlerRan("Asset", "setup_chart")
    /\ Len(doc.finance_books) = 1
    /\ doc.calculate_depreciation

\* This step renders the chart: from the schedule, or after the answer to
\* get_manual_depreciation_entries.
ChartRendered == ChartFromSchedule \/ Returned("get_manual_depreciation_entries")

\* The chart c has the point (date, value).
HasPoint(c, date, value) ==
    \E k \in DOMAIN c.labels :
        k \in DOMAIN c.values /\ c.labels[k] = format_date(date) /\ c.values[k] = value

\* C16: setup_chart renders no chart for an asset with more than one finance
\* book.  Otherwise labels and values of the rendered chart have the same
\* length, the first value is gross_purchase_amount, every schedule row with a
\* journal_entry gives the point gross_purchase_amount -
\* accumulated_depreciation_amount at its schedule_date, and for a Scrapped or
\* Sold asset every schedule row without journal_entry gives null and the last
\* point is 0 at disposal_date.
C16_AssetValueChart ==
    [][/\ (HandlerRan("Asset", "setup_chart") /\ Len(doc.finance_books) > 1)
            => page'.chart = page.chart /\ calls' = calls
       /\ Len(page'.chart.labels) = Len(page'.chart.values)
       /\ ChartRendered =>
            LET c == page'.chart
                n == Len(c.values)
            IN  /\ n >= 1
                /\ c.values[1] = Value(doc.gross_purchase_amount)
                /\ \A i \in DOMAIN doc.schedules :
                      doc.schedules[i].journal_entry # "" =>
                          HasPoint(c, doc.schedules[i].schedule_date,
                                   Value(doc.gross_purchase_amount
                                     - doc.schedules[i].accumulated_depreciation_amount))
                /\ doc.status \in Disposed =>
                      /\ \A i \in DOMAIN doc.schedules :
                            doc.schedules[i].journal_entry = "" =>
                                HasPoint(c, doc.schedules[i].schedule_date, Null)
                      /\ c.labels[n] = format_date(doc.disposal_date)
                      /\ c.values[n] = Value(0)]_vars

\* A scrapped asset's chart has been drawn from its schedule: purchase, the
\* booked row, null for the row not booked, and 0 at the disposal date.
C16_Witness ==
    /\ ran.dt = "Asset" /\ ran.h = "setup_chart"
    /\ doc.status = "Scrapped"
    /\ doc.opening_accumulated_depreciation = 0
    /\ page.chart.labels = <<format_date(doc.purchase_date), format_date(622),
                             format_date(634), format_date(630)>>
    /\ page.chart.values = <<Value(300), Value(250), Null, Value(0)>>

(***************************************************************************)
(* frappe.ui.form.is_saving and the update_status requests (SpecOrder)     *)
(***************************************************************************)
\* The number of requests of the method among the calls c.
InFlight(c, method) == Cardinality({k \in DOMAIN c : c[k].method = method})

\* C17: is_saving is true as long as an update_status request of the order is
\* in flight, also when several such requests overlap, and it is false when
\* none is in flight any more.
C17_SavingWhileInFlight ==
    flags.is_saving <=> InFlight(calls, "update_status") > 0

(***************************************************************************)
(* Booking a schedule row (SpecEntry)                                      *)
(***************************************************************************)
\* The number of make_depreciation_entry requests for row i among the calls c.
EntryRequests(c, i) ==
    Cardinality({k \in DOMAIN c : c[k].method = "make_depreciation_entry" /\ c[k].cdn = i})

\* This step is the press of the button of row i.
Pressed(i) ==
    /\ last'.task = "edit"
    /\ last'.field = "make_depreciation_entry"
    /\ last'.cdn = i
    /\ edits' = edits + 1

DeliveryDates(d) == {d.items[i].delivery_date : i \in DOMAIN d.items}

\* The task of this step is the click or press named label.
TaskIs(label) == last'.task = "edit" /\ last'.field = label /\ edits' = edits + 1

\* C19: a click on 'Delivery Note' shows the dialog of dates iff no item row
\* is selected and the rows have more than one delivery date, and otherwise
\* requests a delivery note without dates.  'Select' with no date checked
\* requests nothing; otherwise it requests a delivery note for exactly the
\* checked dates.
C19_DeliveryNoteByDate ==
    [][/\ TaskIs("Delivery Note") =>
            IF page.selected = {} /\ Cardinality(DeliveryDates(doc)) > 1
            THEN page'.dn_dialog.open /\ calls' = calls
            ELSE /\ ~page'.dn_dialog.open
                 /\ calls' = Append(calls, Call("make_delivery_note", 0, Undefined))
       /\ TaskIs("Select") =>
            IF page.dn_dialog.checked = {}
            THEN calls' = calls
            ELSE /\ Len(calls') = Len(calls) + 1
                 /\ calls'[Len(calls')].method = "make_delivery_note"
                 /\ calls'[Len(calls')].arg.defined
                 /\ LET dates == calls'[Len(calls')].arg.dates
                    IN  {dates[k] : k \in DOMAIN dates} = page.dn_dialog.checked]_vars

(***************************************************************************)
(* Delivery dates of the order and its rows (SpecDeliveryDate)             *)
(***************************************************************************)
\* This step is the user's change of the order's delivery_date.
OrderDateEdited ==
    last'.task = "edit" /\ last'.field = "delivery_date" /\ last'.cdn = 0
        /\ edits' = edits + 1

\* C20: a change of the order's delivery_date is copied into the rows without
\* a delivery_date and leaves the date of every other row as it is; the
\* handler of a row's item_code sets the row's delivery_date to the order's
\* when the order has one; the handler of a row's delivery_date copies the
\* date to all rows when the order has no delivery_date and changes nothing
\* when it has one.
C20_DeliveryDates ==
    [][/\ OrderDateEdited => doc'.items = doc.items
       /\ HandlerRan("Sales Order", "delivery_date") =>
            /\ doc'.delivery_date = doc.delivery_date
            /\ \A i \in DOMAIN doc.items :
                  doc'.items[i].delivery_date =
                      IF doc.items[i].delivery_date = 0
                      THEN doc.delivery_date
                      ELSE doc.items[i].delivery_date
            /\ Len(queue') < Len(queue)
       /\ (HandlerRan("Sales Order Item", "item_code") /\ doc.delivery_date # 0) =>
            doc'.items[ran'.cdn].delivery_date = doc.delivery_date
       /\ HandlerRan("Sales Order Item", "delivery_date") =>
            IF doc.delivery_date = 0
            THEN \A i \in DOMAIN doc.items :
                    doc'.items[i].delivery_date = doc.items[ran'.cdn].delivery_date
            ELSE doc' = doc]_vars

\* The order's date has been changed to 611 on an order whose first row had a
\* date and whose second had none: the first row kept its date, the second
\* took the order's.
C20_Witness ==
    /\ ran.dt = "Sales Order" /\ ran.h = "delivery_date"
    /\ last.task = "edit" /\ last.field = "delivery_date" /\ last.cdn = 0
    /\ doc.delivery_date = 611
    /\ doc.items[1].delivery_date = 610
    /\ doc.items[2].delivery_date = 611

(***************************************************************************)
(* A purchase document without the asset's item (SpecLinks)                *)
(***************************************************************************)
KeptFields ==
    {"company", "purchase_date", "available_for_use_date", "gross_purchase_amount",
     "purchase_receipt_amount", "asset_quantity", "cost_center", "location"}

\* The message for a document of the doctype without the asset's item.
DoesNotContain(doctype) ==
    IF doctype = "Purchase Receipt"
    THEN "The selected Purchase Receipt does not contain the selected Asset Item."
    ELSE "The selected Purchase Invoice does not contain the selected Asset Item."

\* C21: when the fetched purchase document has no line for the asset's item,
\* its link is cleared, the message that the document does not contain the
\* asset's item is shown, no request is sent, and company, purchase_date,
\* available_for_use_date, gross_purchase_amount, purchase_receipt_amount,
\* asset_quantity, cost_center and location are what they were.
C21_DocWithoutItemChangesNothing ==
    [][(Returned("get_doc") /\ LineOf(last'.arg.name, doc.item_code) = 0)
          => /\ doc'[scrub(last'.arg.doctype)] = ""
             /\ DoesNotContain(last'.arg.doctype) \in msgs'
             /\ Len(calls') < Len(calls)
             /\ \A f \in KeptFields : doc'[f] = doc[f]]_vars

(***************************************************************************)
(* The cascade after an edit of the finance books (SpecCascade)            *)
(***************************************************************************)
\* No handler is pending and no request is in flight.
Quiet == queue = <<>> /\ calls = <<>>

\* C22: the handlers and get_depreciation_rate requests that follow the user's
\* edits of the finance-book fields and of gross_purchase_amount come to an
\* end: when the requests have been answered, no handler is pending and no
\* request is in flight, and it stays so.
C22_CascadeEnds == <>[]Quiet

\* An edit of the expected value has been followed by its handlers and by the
\* answer to the request for the rate, which changed the rate; nothing is
\* pending.
C22_Witness ==
    /\ Quiet
    /\ edits = 1
    /\ ran.h = "rate_of_depreciation"
    /\ last.task = "callback"
    /\ last.field = "get_depreciation_rate"
    /\ doc.finance_books[last.cdn].rate_of_depreciation = last.value
    /\ doc.finance_books[last.cdn].rate_of_depreciation # 10

(***************************************************************************)
(* Which link of a draft asset is read-only (SpecLinks)                    *)
(***************************************************************************)
\* C23: on a draft asset at rest, purchase_invoice is read-only only if
\* purchase_receipt is set, purchase_receipt is read-only only if
\* purchase_invoice is set, and the two are not both read-only.
C23_ReadOnlyWhileOtherLinkSet ==
    (Idle /\ doc.docstatus = 0)
      => /\ df.read_only.purchase_invoice => doc.purchase_receipt # ""
         /\ df.read_only.purchase_receipt => doc.purchase_invoice # ""
         /\ ~(df.read_only.purchase_invoice /\ df.read_only.purchase_receipt)

(***************************************************************************)
(* Which parts of the schedule are editable (SpecFinanceBook)              *)
(***************************************************************************)
SomeBookIsManual(d) ==
    \E i \in DOMAIN d.finance_books : d.finance_books[i].depreciation_method = "Manual"

SomeBookIsShiftBased(d) ==
    \E i \in DOMAIN d.finance_books : d.finance_books[i].shift_based

\* C24: when the form is at rest, the schedules table is editable iff some
\* finance book is 'Manual' or shift-based, its columns schedule_date and
\* depreciation_amount are editable iff some finance book is 'Manual', and its
\* column shift is editable iff some finance book is shift-based.
C24_SchedulesEditable ==
    Idle =>
        /\ df.enabled.schedules <=> (SomeBookIsManual(doc) \/ SomeBookIsShiftBased(doc))
        /\ df.enabled.schedule_date <=> SomeBookIsManual(doc)
        /\ df.enabled.depreciation_amount <=> SomeBookIsManual(doc)
        /\ df.enabled.shift <=> SomeBookIsShiftBased(doc)

(***************************************************************************)
(* The amount of a composite asset (SpecLinks)                             *)
(***************************************************************************)
GrossIsZeroAndReadOnly(d, f) ==
    d.gross_purchase_amount = 0 /\ f.read_only.gross_purchase_amount

\* C25: the is_composite_asset handler sets gross_purchase_amount to 0 and
\* makes it read-only when the box is checked and makes it editable when the
\* box is unchecked; while is_composite_asset stays checked, no other step of
\* the form (a handler run or the answer to a purchase document's fetch)
\* changes gross_purchase_amount from 0 or makes it editable.
C25_CompositeAmountStaysZero ==
    [][/\ HandlerRan("Asset", "is_composite_asset")
            => IF doc.is_composite_asset
               THEN GrossIsZeroAndReadOnly(doc', df')
               ELSE ~df'.read_only.gross_purchase_amount
       /\ (doc.is_composite_asset /\ doc'.is_composite_asset
            /\ GrossIsZeroAndReadOnly(doc, df))
            => GrossIsZeroAndReadOnly(doc', df')]_vars

====
